---- MODULE Spec2Model ----
(***************************************************************************)
(* PrecisionTime (firmware/PrecisionTime.cpp, PrecisionTime.h): the        *)
(* millisecond timestamp synchronizer of EdgePowerMeter.  A main context   *)
(* (begin, update, getTimestamp, getUnixMillis) runs against a preemptive  *)
(* falling-edge interrupt handler (_onSqwPulse), a free-running tick       *)
(* source (millis) and a calendar source (DS3231) whose 1 Hz square wave   *)
(* falls exactly when its seconds register advances.                       *)
(***************************************************************************)
EXTENDS Integers, Sequences, FiniteSets, TLC

\* ------------------------------------------------------------------ bounds
\* width of the tick counter in the model (unsigned long, reduced)
TickBits ==
    12
\* how many times the tick source is observed to advance
MaxTickSteps ==
    3
\* how many calendar seconds roll over
MaxSeconds ==
    3

TickMod ==
    2 ^ TickBits

\* ------------------------------------------------------- program constants
SyncTimeoutMs ==
    2500
MsPerSecond ==
    1000
LastSecondInit ==
    255
HIGH ==
    1
LOW ==
    0

\* amounts by which the tick source is seen to advance between two steps
TickSteps ==
    {1, 1000}
\* tick values at power-up of the synchronizer (the second one is within
\* SyncTimeoutMs of the wrap of the counter)
TickStarts ==
    {0, TickMod - 1500}
\* calendar seconds at power-up: 23:59:58 of day 0
RtcStarts ==
    {86398}
Wirings ==
    {"ok", "stuckHigh", "stuckLow"}

VARIABLES
    tick,            \* millis()
    nTicks,          \* number of tick advances so far
    rtcSecs,         \* calendar source: seconds register, as a running count
    rtcStart,        \* calendar seconds at power-up
    sqwLevel,        \* level of the SQW output of the calendar source
    wiring,          \* how the SQW output reaches the input pin
    attached,        \* attachInterrupt(..., _onSqwPulse, FALLING) was called
    intsEnabled,     \* global interrupt enable (noInterrupts / interrupts)
    irqLatched,      \* a falling edge is waiting for its handler
    instance,        \* PrecisionTime::_instance: "null" or "this"
    syncPending,     \* _syncPending
    syncMillis,      \* _syncMillis
    syncedTime,      \* _syncedTime
    lastSyncMillis,  \* _lastSyncMillis
    initialized,     \* _initialized
    usingSqw,        \* _usingSqw
    lastSecond,      \* _lastSecond
    pc,              \* position of the main context
    timeout,         \* begin(): timeout
    transitionCount, \* begin(): transitionCount
    lastState,       \* begin(): lastState
    currentState,    \* begin(): currentState
    capturedMillis,  \* update(): capturedMillis
    pollNow,         \* update(): now
    beginDone,       \* begin() has returned
    beginResult,     \* value returned by begin()
    ret,             \* result of getTimestamp / getUnixMillis, until the next begin/update
    rtcReads,        \* calendar reads made by the running (or last) operation
    commits,         \* commits made by the running (or last) update()
    lastAct,         \* context of the last step: "main", "isr" or "env"
    lastOp,          \* operation the main context ran last
    gEdges,          \* handler runs since update() last copied _syncMillis
    gEdgeTick,       \* tick read by the most recent handler run
    gEdgeSec,        \* calendar second that began at the most recent handled edge
    gCopyTick,       \* gEdgeTick when update() last copied
    gCopySec,        \* gEdgeSec when update() last copied
    gCopyEdges,      \* edges drained by the running (or last) update()
    gFirstTick,      \* tick read by the first handler run since the last copy
    gCopyFirst,      \* gFirstTick when update() last copied
    gSawFalling,     \* begin() sampled HIGH and then LOW on the pin
    gBeginTick,      \* tick when begin() took the value it anchors to
    gBeginSec,       \* calendar seconds when begin() read the calendar
    gTorn,           \* one field of the reference is written, the other not yet
    gRetTick,        \* tick at which ret was computed
    gRetEdge,        \* the handler ran since ret was computed
    fwPc,            \* firmware.ino: position in setup()/loop(); "lib" when the
                     \* synchronizer is driven by an arbitrary caller
    rtcPresent,      \* the DS3231 answers on the bus
    inaPresent,      \* the INA226 answers on the bus
    displayPresent,  \* the SSD1306 answers on the bus
    displayInit,     \* OLEDStatus::_display is not null
    fatal,           \* component named by showError(), "none" before
    rtcInitCalls,    \* calls of RTC::initialize()
    lastMeasurementTime, \* firmware.ino: lastMeasurementTime
    lastOutputTime,  \* firmware.ino: lastOutputTime
    lastDisplayTime, \* firmware.ino: lastDisplayTime
    loopNow,         \* loop(): now
    currentMeasurement, \* firmware.ino: currentMeasurement (its timestamp)
    csvLines,        \* CSV lines printed so far
    sqwWarning,      \* setup() printed the degraded-timing warning
    gCsv,            \* legacy loop(): what the most recent CSV line carried
    gMeasPrinted,    \* legacy loop(): currentMeasurement was printed already
    oledShown,       \* OLEDStatus: what the panel shows
    gRetRepeat       \* ret comes from a call that directly followed a call of
                     \* the same getter at the same tick, with a handler run
                     \* between the two calls

envVars ==
    <<tick, nTicks, rtcSecs, rtcStart, sqwLevel, wiring>>
irqVars ==
    <<attached, intsEnabled, irqLatched>>
sharedVars ==
    <<syncPending, syncMillis>>
mainVars ==
    <<syncedTime, lastSyncMillis, initialized, usingSqw, lastSecond>>
beginLocals ==
    <<timeout, transitionCount, lastState, currentState>>
updateLocals ==
    <<capturedMillis, pollNow>>
resultVars ==
    <<beginDone, beginResult>>
edgeGhosts ==
    <<gEdges, gEdgeTick, gEdgeSec, gFirstTick>>
copyGhosts ==
    <<gCopyTick, gCopySec, gCopyEdges, gCopyFirst>>
beginGhosts ==
    <<gSawFalling, gBeginTick, gBeginSec>>
retGhosts ==
    <<gRetTick, gRetEdge, gRetRepeat>>
obsGhosts ==
    <<gTorn, retGhosts>>
fwVars ==
    <<fwPc, rtcPresent, inaPresent, displayPresent, displayInit, fatal,
      rtcInitCalls, lastMeasurementTime, lastOutputTime, lastDisplayTime,
      loopNow, currentMeasurement, csvLines, sqwWarning, gCsv,
      gMeasPrinted, oledShown>>
ghostVars ==
    <<edgeGhosts, copyGhosts, beginGhosts, obsGhosts>>
vars ==
    <<instance, tick, nTicks, rtcSecs, rtcStart, sqwLevel, wiring, attached,
      intsEnabled, irqLatched, syncPending, syncMillis, syncedTime,
      lastSyncMillis, initialized, usingSqw, lastSecond, pc, timeout,
      transitionCount, lastState, currentState, capturedMillis, pollNow,
      beginDone, beginResult, ret, rtcReads, commits, lastAct, lastOp,
      gEdges,
      gEdgeTick, gEdgeSec, gCopyTick, gCopySec, gCopyEdges, gFirstTick,
      gCopyFirst, gSawFalling, gBeginTick, gBeginSec, gTorn, gRetTick,
      gRetEdge, gRetRepeat, fwPc, rtcPresent, inaPresent, displayPresent,
      displayInit, fatal, rtcInitCalls, lastMeasurementTime, lastOutputTime,
      lastDisplayTime, loopNow, currentMeasurement, csvLines, sqwWarning,
      gCsv, gMeasPrinted, oledShown>>

\* the constructor's `_instance = this`
ConstructedInstanceNull ==
    "null"

ConstructedInstance ==
    "this"

\* ------------------------------------------------ calendar values (RTClib)
\* DateTime built from a count of seconds: day number and time of day
DateTimeOf(t) ==
    [days |-> t \div 86400,
     hh   |-> (t % 86400) \div 3600,
     mm   |-> (t % 3600) \div 60,
     ss   |-> t % 60]

\* DateTime::unixtime()
Unixtime(dt) ==
    dt.days * 86400 + dt.hh * 3600 + dt.mm * 60 + dt.ss

\* DateTime + TimeSpan(seconds)
PlusSeconds(dt, s) ==
    DateTimeOf(Unixtime(dt) + s)

\* DateTime() default value of the _syncedTime member
DateTimeDefault ==
    DateTimeOf(0)

\* _rtc.now()
RtcNow ==
    DateTimeOf(rtcSecs)

\* digitalRead(_sqwPin) on an INPUT_PULLUP pin
PinLevel ==
    CASE wiring = "ok"        -> sqwLevel
      [] wiring = "stuckHigh" -> HIGH
      [] wiring = "stuckLow"  -> LOW

\* variant: the operands of the subtraction are swapped
ElapsedSwapped(cur, sync) ==
    (sync - cur + TickMod) % TickMod

\* variant: signed distance instead of wraparound subtraction
ElapsedAbs(cur, sync) ==
    IF cur >= sync THEN cur - sync ELSE sync - cur

\* variant: the sync instant is not subtracted
ElapsedNoBase(cur, sync) ==
    cur % TickMod

\* ------------------------------------------------------ timestamp formulas
\* unsigned long elapsed = currentMillis - _lastSyncMillis
Elapsed(cur, sync) ==
    (cur - sync + TickMod) % TickMod

\* variant: the whole seconds are rounded to nearest instead of truncated
TimestampOfRounded(cur, sync, base) ==
    [dt |-> PlusSeconds(base, (Elapsed(cur, sync) + 500) \div MsPerSecond),
     ms |-> Elapsed(cur, sync) % MsPerSecond]

\* the fields getTimestamp() formats once initialized
TimestampOf(cur, sync, base) ==
    [dt |-> PlusSeconds(base, Elapsed(cur, sync) \div MsPerSecond),
     ms |-> Elapsed(cur, sync) % MsPerSecond]

\* variant: the millisecond part is not added
UnixMillisOfSecondsOnly(cur, sync, base) ==
    (Unixtime(PlusSeconds(base, Elapsed(cur, sync) \div MsPerSecond)) * 1000)
        + 0

\* the value getUnixMillis() returns once initialized
UnixMillisOf(cur, sync, base) ==
    (Unixtime(PlusSeconds(base, Elapsed(cur, sync) \div MsPerSecond)) * 1000)
        + (Elapsed(cur, sync) % MsPerSecond)

NoRet ==
    [op |-> "none", dt |-> DateTimeDefault, ms |-> 0, val |-> 0,
     buf |-> <<>>, bytes |-> 0, size |-> 0]

\* sizeof(Measurement::timestamp), the size every caller passes
TimestampSize ==
    24

\* days in month m of year 2000 + yOff
DaysInMonth(m, yOff) ==
    IF m = 2 THEN (IF yOff % 4 = 0 THEN 29 ELSE 28)
    ELSE IF m \in {4, 6, 9, 11} THEN 30 ELSE 31

DaysInYear(yOff) ==
    IF yOff % 4 = 0 THEN 366 ELSE 365

RECURSIVE YearOf(_, _)
YearOf(d, yOff) ==
    IF d < DaysInYear(yOff) THEN [yOff |-> yOff, rest |-> d]
    ELSE YearOf(d - DaysInYear(yOff), yOff + 1)

RECURSIVE MonthOf(_, _, _)
MonthOf(d, m, yOff) ==
    IF m = 12 \/ d < DaysInMonth(m, yOff) THEN [month |-> m, day |-> d + 1]
    ELSE MonthOf(d - DaysInMonth(m, yOff), m + 1, yOff)

\* DateTime::year(), month(), day() of a value whose day count starts at
\* 2000-01-01
DateOf(days) ==
    [year  |-> 2000 + YearOf(days, 0).yOff,
     month |-> MonthOf(YearOf(days, 0).rest, 1, YearOf(days, 0).yOff).month,
     day   |-> MonthOf(YearOf(days, 0).rest, 1, YearOf(days, 0).yOff).day]

Digit(n) ==
    <<"0", "1", "2", "3", "4", "5", "6", "7", "8", "9">>[n + 1]

\* the decimal digits of n >= 0, most significant first
RECURSIVE Decimal(_)
Decimal(n) ==
    IF n < 10 THEN <<Digit(n)>>
    ELSE Append(Decimal(n \div 10), Digit(n % 10))

\* zero padding up to the field width
RECURSIVE Zeros(_)
Zeros(k) ==
    IF k <= 0 THEN <<>> ELSE <<"0">> \o Zeros(k - 1)

\* printf's %0wd of n >= 0: padded to w digits, never cut
Padded(n, w) ==
    Zeros(w - Len(Decimal(n))) \o Decimal(n)

\* variant: the day of the month is printed counting from 0
FormatTimestampDayFromZero(dt, ms) ==
    Padded(DateOf(dt.days).year, 4) \o <<"-">>
        \o Padded(DateOf(dt.days).month, 2) \o <<"-">>
        \o Padded(DateOf(dt.days).day - 1, 2) \o <<" ">>
        \o Padded(dt.hh, 2) \o <<":">> \o Padded(dt.mm, 2) \o <<":">>
        \o Padded(dt.ss, 2) \o <<".">> \o Padded(ms, 3)

\* the characters "%04d-%02d-%02d %02d:%02d:%02d.%03d" produces
FormatTimestamp(dt, ms) ==
    Padded(DateOf(dt.days).year, 4) \o <<"-">>
        \o Padded(DateOf(dt.days).month, 2) \o <<"-">>
        \o Padded(DateOf(dt.days).day, 2) \o <<" ">>
        \o Padded(dt.hh, 2) \o <<":">> \o Padded(dt.mm, 2) \o <<":">>
        \o Padded(dt.ss, 2) \o <<".">> \o Padded(ms, 3)

\* variant: the size argument is ignored, as sprintf would
SnprintfUnbounded(str, size) ==
    [buf |-> str, bytes |-> Len(str) + 1]

\* snprintf(buffer, size, ...): at most size - 1 characters and a
\* terminator; nothing at all when size is 0
Snprintf(str, size) ==
    IF size = 0 THEN [buf |-> <<>>, bytes |-> 0]
    ELSE IF Len(str) <= size - 1 THEN [buf |-> str, bytes |-> Len(str) + 1]
    ELSE [buf |-> SubSeq(str, 1, size - 1), bytes |-> size]

\* what a getTimestamp() call leaves behind
RetTimestamp(dt, ms, size) ==
    [op |-> "getTimestamp", dt |-> dt, ms |-> ms, val |-> 0,
     buf |-> Snprintf(FormatTimestamp(dt, ms), size).buf,
     bytes |-> Snprintf(FormatTimestamp(dt, ms), size).bytes,
     size |-> size]

\* what a getUnixMillis() call returns
RetUnixMillis(v) ==
    [op |-> "getUnixMillis", dt |-> DateTimeDefault, ms |-> 0, val |-> v,
     buf |-> <<>>, bytes |-> 0, size |-> 0]

\* inputs of the formatting arithmetic: elapsed ticks around the second
\* boundaries, references on both sides of the tick wraparound, and base
\* wall times whose next second carries into minute, hour and day
FnElapsed ==
    {0, 999, 1000, 1001, 1999, 2000}
FnSyncs ==
    {0, 7, TickMod - 500}
FnBases ==
    {30, 59, 3599, 86399}

\* base wall times, in seconds since 2000-01-01, one second before the end
\* of 2000-01-31, 2000-02-28, 2000-12-31, 2001-02-28 and 2067-12-31
FmtBases ==
    {(30 * 86400) + 86399, (58 * 86400) + 86399, (365 * 86400) + 86399,
     (424 * 86400) + 86399, (24836 * 86400) + 86399}

\* buffer sizes a caller may pass
BufferSizes ==
    {0, 1, 10, 23, 24, 32}

\* ------------------------------------------------------------------- Init
InitPrecisionTime ==
    /\ instance = ConstructedInstance
    /\ tick \in TickStarts
    /\ nTicks = 0
    /\ rtcStart \in RtcStarts
    /\ rtcSecs = rtcStart
    /\ sqwLevel \in {HIGH, LOW}
    /\ wiring \in Wirings
    /\ attached = FALSE
    /\ intsEnabled = TRUE
    /\ irqLatched = FALSE
    /\ syncPending = FALSE
    /\ syncMillis = 0
    /\ syncedTime = DateTimeDefault
    /\ lastSyncMillis = 0
    /\ initialized = FALSE
    /\ usingSqw = FALSE
    /\ lastSecond = LastSecondInit
    /\ pc = "idle"
    /\ timeout = 0
    /\ transitionCount = 0
    /\ lastState = HIGH
    /\ currentState = HIGH
    /\ capturedMillis = 0
    /\ pollNow = DateTimeDefault
    /\ beginDone = FALSE
    /\ beginResult = FALSE
    /\ ret = NoRet
    /\ rtcReads = 0
    /\ commits = 0
    /\ lastAct = "env"
    /\ lastOp = "none"
    /\ gEdges = 0
    /\ gEdgeTick = 0
    /\ gEdgeSec = 0
    /\ gCopyTick = 0
    /\ gCopySec = 0
    /\ gCopyEdges = 0
    /\ gFirstTick = 0
    /\ gCopyFirst = 0
    /\ gSawFalling = FALSE
    /\ gBeginTick = 0
    /\ gBeginSec = 0
    /\ gTorn = FALSE
    /\ gRetTick = 0
    /\ gRetEdge = FALSE
    /\ gRetRepeat = FALSE

\* the panel before anything was drawn on it
NothingShown ==
    [kind |-> "none", line1 |-> "", line2 |-> ""]

\* firmware.ino globals before setup() runs (lines 110-118)
InitFirmwareGlobals ==
    /\ displayInit = FALSE
    /\ fatal = "none"
    /\ rtcInitCalls = 0
    /\ lastMeasurementTime = 0
    /\ lastOutputTime = 0
    /\ lastDisplayTime = 0
    /\ loopNow = 0
    /\ currentMeasurement = NoRet
    /\ csvLines = 0
    /\ sqwWarning = FALSE
    /\ gCsv = "none"
    /\ gMeasPrinted = FALSE
    /\ oledShown = NothingShown

\* the object after begin() took the polling fallback at tick s with the
\* calendar at b, e ticks ago, and no update() since
InitAfterFallback(bases) ==
    /\ instance = ConstructedInstance
    /\ \E s \in FnSyncs, e \in FnElapsed, b \in bases :
          /\ tick = (s + e) % TickMod
          /\ lastSyncMillis = s
          /\ syncedTime = DateTimeOf(b)
          /\ lastSecond = DateTimeOf(b).ss
          /\ rtcStart = b
          /\ rtcSecs = b + (e \div MsPerSecond)
          /\ gBeginTick = s
          /\ gBeginSec = b
    /\ nTicks = 0
    /\ sqwLevel = HIGH
    /\ wiring = "stuckHigh"
    /\ attached = FALSE
    /\ intsEnabled = TRUE
    /\ irqLatched = FALSE
    /\ syncPending = FALSE
    /\ syncMillis = 0
    /\ initialized = TRUE
    /\ usingSqw = FALSE
    /\ pc = "idle"
    /\ timeout = 0
    /\ transitionCount = 0
    /\ lastState = HIGH
    /\ currentState = HIGH
    /\ capturedMillis = 0
    /\ pollNow = DateTimeDefault
    /\ beginDone = TRUE
    /\ beginResult = FALSE
    /\ ret = NoRet
    /\ rtcReads = 0
    /\ commits = 1
    /\ lastAct = "main"
    /\ lastOp = "begin"
    /\ gEdges = 0
    /\ gEdgeTick = 0
    /\ gEdgeSec = 0
    /\ gCopyTick = 0
    /\ gCopySec = 0
    /\ gCopyEdges = 0
    /\ gFirstTick = 0
    /\ gCopyFirst = 0
    /\ gSawFalling = FALSE
    /\ gTorn = FALSE
    /\ gRetTick = 0
    /\ gRetEdge = FALSE
    /\ gRetRepeat = FALSE
    /\ InitFirmwareGlobals
    /\ fwPc = "lib"
    /\ rtcPresent = TRUE
    /\ inaPresent = TRUE
    /\ displayPresent = TRUE

InitFn ==
    InitAfterFallback(FnBases)

\* the same object with references at the last second of a month, of
\* February in a leap and in a common year, of a year, and of 2067
InitFmt ==
    InitAfterFallback(FmtBases)

\* the synchronizer alone, its operations called in any order
Init ==
    /\ InitPrecisionTime
    /\ InitFirmwareGlobals
    /\ fwPc = "lib"
    /\ rtcPresent = TRUE
    /\ inaPresent = TRUE
    /\ displayPresent = TRUE

\* an edge is waiting and nothing masks it: the handler preempts everything
IrqReady ==
    irqLatched /\ intsEnabled /\ attached

\* ------------------------------------------------------------ environment
\* the tick source advances
TickAdvance ==
    /\ ~IrqReady
    /\ nTicks < MaxTickSteps
    /\ \E d \in TickSteps : tick' = (tick + d) % TickMod
    /\ nTicks' = nTicks + 1
    /\ lastAct' = "env"
    /\ UNCHANGED <<rtcSecs, rtcStart, sqwLevel, wiring, irqVars, sharedVars,
                   mainVars, pc, beginLocals, updateLocals, resultVars, ret,
                   rtcReads, commits, lastOp, ghostVars>>
    /\ UNCHANGED <<instance, fwVars>>

\* the calendar source starts a new second: its seconds register advances
\* and the square wave falls; a registered FALLING handler is requested
RtcSecondEdge ==
    /\ ~IrqReady
    /\ sqwLevel = HIGH
    /\ rtcSecs < rtcStart + MaxSeconds
    /\ rtcSecs' = rtcSecs + 1
    /\ sqwLevel' = LOW
    /\ irqLatched' = (irqLatched \/ (attached /\ wiring = "ok"))
    /\ lastAct' = "env"
    /\ UNCHANGED <<tick, nTicks, rtcStart, wiring, attached, intsEnabled,
                   sharedVars, mainVars, pc, beginLocals, updateLocals,
                   resultVars, ret, rtcReads, commits, lastOp, ghostVars>>
    /\ UNCHANGED <<instance, fwVars>>

\* half a second later the square wave rises
RtcHalfSecond ==
    /\ ~IrqReady
    /\ sqwLevel = LOW
    /\ sqwLevel' = HIGH
    /\ lastAct' = "env"
    /\ UNCHANGED <<tick, nTicks, rtcSecs, rtcStart, wiring, irqVars,
                   sharedVars, mainVars, pc, beginLocals, updateLocals,
                   resultVars, ret, rtcReads, commits, lastOp, ghostVars>>
    /\ UNCHANGED <<instance, fwVars>>

\* variant: the handler keeps the tick of the first undrained edge
OnSqwPulseFirstWins ==
    /\ IrqReady
    /\ syncMillis' = IF syncPending THEN syncMillis ELSE tick
    /\ syncPending' = TRUE
    /\ irqLatched' = FALSE
    /\ gEdges' = gEdges + 1
    /\ gEdgeTick' = tick
    /\ gEdgeSec' = rtcSecs
    /\ gFirstTick' = IF gEdges = 0 THEN tick ELSE gFirstTick
    /\ gRetEdge' = (gRetEdge \/ ret.op # "none")
    /\ lastAct' = "isr"
    /\ UNCHANGED <<envVars, attached, intsEnabled, mainVars, pc, beginLocals,
                   updateLocals, resultVars, ret, rtcReads, commits, lastOp,
                   copyGhosts, beginGhosts, gTorn, gRetTick,
                   gRetRepeat>>
    /\ UNCHANGED <<instance, fwVars>>

\* variant: the handler also moves the reference's sync instant
OnSqwPulseCommits ==
    /\ IrqReady
    /\ syncMillis' = tick
    /\ syncPending' = TRUE
    /\ lastSyncMillis' = tick
    /\ irqLatched' = FALSE
    /\ gEdges' = gEdges + 1
    /\ gEdgeTick' = tick
    /\ gEdgeSec' = rtcSecs
    /\ gFirstTick' = IF gEdges = 0 THEN tick ELSE gFirstTick
    /\ gRetEdge' = (gRetEdge \/ ret.op # "none")
    /\ lastAct' = "isr"
    /\ UNCHANGED <<envVars, attached, intsEnabled, syncedTime, initialized,
                   usingSqw, lastSecond, pc, beginLocals,
                   updateLocals, resultVars, ret, rtcReads, commits, lastOp,
                   copyGhosts, beginGhosts, gTorn, gRetTick,
                   gRetRepeat>>
    /\ UNCHANGED <<instance, fwVars>>

\* variant: the handler raises the flag without storing the tick
OnSqwPulseFlagOnly ==
    /\ IrqReady
    /\ syncMillis' = syncMillis
    /\ syncPending' = TRUE
    /\ irqLatched' = FALSE
    /\ gEdges' = gEdges + 1
    /\ gEdgeTick' = tick
    /\ gEdgeSec' = rtcSecs
    /\ gFirstTick' = IF gEdges = 0 THEN tick ELSE gFirstTick
    /\ gRetEdge' = (gRetEdge \/ ret.op # "none")
    /\ lastAct' = "isr"
    /\ UNCHANGED <<envVars, attached, intsEnabled, mainVars, pc, beginLocals,
                   updateLocals, resultVars, ret, rtcReads, commits, lastOp,
                   copyGhosts, beginGhosts, gTorn, gRetTick,
                   gRetRepeat>>
    /\ UNCHANGED <<instance, fwVars>>

\* ------------------------------------------------------ interrupt context
\* PrecisionTime::_onSqwPulse
OnSqwPulse ==
    /\ IrqReady
    /\ IF instance # "null"
       THEN /\ syncMillis' = tick
            /\ syncPending' = TRUE
       ELSE UNCHANGED <<syncMillis, syncPending>>
    /\ irqLatched' = FALSE
    /\ gEdges' = gEdges + 1
    /\ gEdgeTick' = tick
    /\ gEdgeSec' = rtcSecs
    /\ gFirstTick' = IF gEdges = 0 THEN tick ELSE gFirstTick
    /\ gRetEdge' = (gRetEdge \/ ret.op # "none")
    /\ lastAct' = "isr"
    /\ UNCHANGED <<envVars, attached, intsEnabled, mainVars, pc, beginLocals,
                   updateLocals, resultVars, ret, rtcReads, commits, lastOp,
                   copyGhosts, beginGhosts, gTorn, gRetTick,
                   gRetRepeat>>
    /\ UNCHANGED <<instance, fwVars>>

\* ----------------------------------------------------------------- begin()
\* begin()'s locals (timeout, transitionCount, lastState, currentState) live
\* from its entry to its return: every returning step ends them
\* variant: the loop has no deadline
BeforeDeadlineNever(now, deadline) ==
    TRUE

\* millis() < timeout, on unsigned long
BeforeDeadline(now, deadline) ==
    now < deadline

\* lines 37-50: configure, compute the deadline, take the first pin sample
BeginEnter ==
    /\ ~IrqReady
    /\ pc = "idle"
    /\ ~beginDone
    /\ timeout' = (tick + SyncTimeoutMs) % TickMod
    /\ transitionCount' = 0
    /\ lastState' = PinLevel
    /\ pc' = "b_loop"
    /\ rtcReads' = 0
    /\ lastOp' = "begin"
    /\ lastAct' = "main"
    /\ ret' = NoRet
    /\ gRetTick' = 0
    /\ gRetEdge' = FALSE
    /\ gRetRepeat' = FALSE
    /\ UNCHANGED <<envVars, irqVars, sharedVars, mainVars, currentState,
                   updateLocals, resultVars, commits, edgeGhosts, copyGhosts,
                   beginGhosts, gTorn>>
    /\ UNCHANGED <<instance, fwVars>>

\* line 52: the loop condition
BeginLoopTest ==
    /\ ~IrqReady
    /\ pc = "b_loop"
    /\ pc' = IF BeforeDeadline(tick, timeout) /\ transitionCount < 2
             THEN "b_read" ELSE "b_fb_read"
    /\ lastAct' = "main"
    /\ UNCHANGED <<envVars, irqVars, sharedVars, mainVars, beginLocals,
                   updateLocals, resultVars, ret, rtcReads, commits, lastOp,
                   ghostVars>>
    /\ UNCHANGED <<instance, fwVars>>

\* variant: synchronize on any transition
IsSyncEdgeAny(last, cur) ==
    last # cur

\* line 58: the transition on which begin() synchronizes
IsSyncEdge(last, cur) ==
    last = HIGH /\ cur = LOW

\* lines 53-59, 72-74: sample the pin, count a transition, and on the
\* synchronizing edge record the tick
BeginSample ==
    /\ ~IrqReady
    /\ pc = "b_read"
    /\ currentState' = PinLevel
    /\ IF PinLevel # lastState
       THEN /\ transitionCount' = transitionCount + 1
            /\ IF IsSyncEdge(lastState, PinLevel)
               THEN /\ lastSyncMillis' = tick
                    /\ pc' = "b_sync_rtc"
                    /\ UNCHANGED lastState
               ELSE /\ lastState' = PinLevel
                    /\ pc' = "b_loop"
                    /\ UNCHANGED lastSyncMillis
       ELSE /\ pc' = "b_loop"
            /\ UNCHANGED <<transitionCount, lastState, lastSyncMillis>>
    /\ gSawFalling' = (gSawFalling \/ (lastState = HIGH /\ PinLevel = LOW))
    /\ gBeginTick' = tick
    /\ gTorn' = (pc' = "b_sync_rtc")
    /\ lastAct' = "main"
    /\ UNCHANGED <<envVars, irqVars, sharedVars, syncedTime, initialized,
                   usingSqw, lastSecond, timeout, updateLocals, resultVars,
                   ret, rtcReads, commits, lastOp, edgeGhosts, copyGhosts,
                   gBeginSec, retGhosts>>
    /\ UNCHANGED <<instance, fwVars>>

\* value begin() returns from the interrupt branch (line 70)
SyncReturn ==
    TRUE

\* variant: interrupt mode selected without attaching the handler
BeginSyncNoAttach ==
    /\ ~IrqReady
    /\ pc = "b_sync_rtc"
    /\ syncedTime' = RtcNow
    /\ rtcReads' = rtcReads + 1
    /\ initialized' = TRUE
    /\ usingSqw' = TRUE
    /\ attached' = attached
    /\ beginResult' = SyncReturn
    /\ beginDone' = TRUE
    /\ pc' = "idle"
    /\ lastAct' = "main"
    /\ gBeginSec' = rtcSecs
    /\ gTorn' = FALSE
    /\ timeout' = 0
    /\ transitionCount' = 0
    /\ lastState' = HIGH
    /\ currentState' = HIGH
    /\ UNCHANGED <<envVars, intsEnabled, irqLatched, sharedVars,
                   lastSyncMillis, lastSecond, updateLocals, ret,
                   commits, lastOp, edgeGhosts, copyGhosts, gSawFalling,
                   gBeginTick, retGhosts>>
    /\ UNCHANGED <<instance, fwVars>>

\* lines 60-70: read the calendar, select interrupt mode, attach the handler
BeginSync ==
    /\ ~IrqReady
    /\ pc = "b_sync_rtc"
    /\ syncedTime' = RtcNow
    /\ rtcReads' = rtcReads + 1
    /\ initialized' = TRUE
    /\ usingSqw' = TRUE
    /\ attached' = TRUE
    /\ beginResult' = SyncReturn
    /\ beginDone' = TRUE
    /\ pc' = "idle"
    /\ lastAct' = "main"
    /\ gBeginSec' = rtcSecs
    /\ gTorn' = FALSE
    /\ timeout' = 0
    /\ transitionCount' = 0
    /\ lastState' = HIGH
    /\ currentState' = HIGH
    /\ UNCHANGED <<envVars, intsEnabled, irqLatched, sharedVars,
                   lastSyncMillis, lastSecond, updateLocals, ret,
                   commits, lastOp, edgeGhosts, copyGhosts, gSawFalling,
                   gBeginTick, retGhosts>>
    /\ UNCHANGED <<instance, fwVars>>

\* line 80: the fallback's calendar read
BeginFallbackRead ==
    /\ ~IrqReady
    /\ pc = "b_fb_read"
    /\ syncedTime' = RtcNow
    /\ rtcReads' = rtcReads + 1
    /\ pc' = "b_fb_commit"
    /\ lastAct' = "main"
    /\ gBeginSec' = rtcSecs
    /\ gTorn' = TRUE
    /\ UNCHANGED <<envVars, irqVars, sharedVars, lastSyncMillis, initialized,
                   usingSqw, lastSecond, beginLocals, updateLocals,
                   resultVars, ret, commits, lastOp, edgeGhosts, copyGhosts,
                   gSawFalling, gBeginTick, retGhosts>>
    /\ UNCHANGED <<instance, fwVars>>

\* variant: the fallback reports success
FallbackReturnTrue ==
    TRUE

\* value begin() returns from the polling fallback (line 86)
FallbackReturn ==
    FALSE

\* variant: the fallback leaves _lastSecond at its initial value
BeginFallbackCommitNoSecond ==
    /\ ~IrqReady
    /\ pc = "b_fb_commit"
    /\ lastSyncMillis' = tick
    /\ lastSecond' = lastSecond
    /\ initialized' = TRUE
    /\ usingSqw' = FALSE
    /\ beginResult' = FallbackReturn
    /\ beginDone' = TRUE
    /\ pc' = "idle"
    /\ lastAct' = "main"
    /\ gBeginTick' = tick
    /\ gTorn' = FALSE
    /\ timeout' = 0
    /\ transitionCount' = 0
    /\ lastState' = HIGH
    /\ currentState' = HIGH
    /\ UNCHANGED <<envVars, irqVars, sharedVars, syncedTime,
                   updateLocals, ret, rtcReads, commits, lastOp, edgeGhosts,
                   copyGhosts, gSawFalling, gBeginSec, retGhosts>>
    /\ UNCHANGED <<instance, fwVars>>

\* variant: the fallback registers the edge handler too
BeginFallbackCommitAttaches ==
    /\ ~IrqReady
    /\ pc = "b_fb_commit"
    /\ lastSyncMillis' = tick
    /\ lastSecond' = syncedTime.ss
    /\ initialized' = TRUE
    /\ usingSqw' = FALSE
    /\ beginResult' = FallbackReturn
    /\ beginDone' = TRUE
    /\ pc' = "idle"
    /\ lastAct' = "main"
    /\ gBeginTick' = tick
    /\ gTorn' = FALSE
    /\ attached' = TRUE
    /\ timeout' = 0
    /\ transitionCount' = 0
    /\ lastState' = HIGH
    /\ currentState' = HIGH
    /\ UNCHANGED <<envVars, intsEnabled, irqLatched, sharedVars,
                   syncedTime,
                   updateLocals, ret, rtcReads, commits, lastOp, edgeGhosts,
                   copyGhosts, gSawFalling, gBeginSec, retGhosts>>
    /\ UNCHANGED <<instance, fwVars>>

\* lines 81-86: anchor to the current tick, select polling mode
BeginFallbackCommit ==
    /\ ~IrqReady
    /\ pc = "b_fb_commit"
    /\ lastSyncMillis' = tick
    /\ lastSecond' = syncedTime.ss
    /\ initialized' = TRUE
    /\ usingSqw' = FALSE
    /\ beginResult' = FallbackReturn
    /\ beginDone' = TRUE
    /\ pc' = "idle"
    /\ lastAct' = "main"
    /\ gBeginTick' = tick
    /\ gTorn' = FALSE
    /\ timeout' = 0
    /\ transitionCount' = 0
    /\ lastState' = HIGH
    /\ currentState' = HIGH
    /\ UNCHANGED <<envVars, irqVars, sharedVars, syncedTime,
                   updateLocals, ret, rtcReads, commits, lastOp, edgeGhosts,
                   copyGhosts, gSawFalling, gBeginSec, retGhosts>>
    /\ UNCHANGED <<instance, fwVars>>

\* variant: interrupt mode drains on every call, pending or not
UpdateEnterAlwaysDrains ==
    /\ ~IrqReady
    /\ pc = "idle"
    /\ lastOp' = "update"
    /\ commits' = 0
    /\ IF usingSqw
       THEN /\ pc' = "u_mask"
            /\ rtcReads' = 0
            /\ UNCHANGED pollNow
       ELSE IF ~usingSqw /\ initialized
       THEN /\ pollNow' = RtcNow
            /\ rtcReads' = 1
            /\ pc' = IF RtcNow.ss # lastSecond THEN "p_commit" ELSE "idle"
       ELSE /\ pc' = "idle"
            /\ rtcReads' = 0
            /\ UNCHANGED pollNow
    /\ lastAct' = "main"
    /\ ret' = NoRet
    /\ gRetTick' = 0
    /\ gRetEdge' = FALSE
    /\ gRetRepeat' = FALSE
    /\ gCopyEdges' = 0
    /\ UNCHANGED <<envVars, irqVars, sharedVars, mainVars, beginLocals,
                   capturedMillis, resultVars, edgeGhosts, gCopyTick,
                   gCopySec, gCopyFirst, beginGhosts, gTorn>>
    /\ UNCHANGED <<instance, fwVars>>

\* variant: the polling branch does not test _initialized
UpdateEnterPollsUninitialized ==
    /\ ~IrqReady
    /\ pc = "idle"
    /\ lastOp' = "update"
    /\ commits' = 0
    /\ IF usingSqw /\ syncPending
       THEN /\ pc' = "u_mask"
            /\ rtcReads' = 0
            /\ UNCHANGED pollNow
       ELSE IF ~usingSqw
       THEN /\ pollNow' = RtcNow
            /\ rtcReads' = 1
            /\ pc' = IF RtcNow.ss # lastSecond THEN "p_commit" ELSE "idle"
       ELSE /\ pc' = "idle"
            /\ rtcReads' = 0
            /\ UNCHANGED pollNow
    /\ lastAct' = "main"
    /\ ret' = NoRet
    /\ gRetTick' = 0
    /\ gRetEdge' = FALSE
    /\ gRetRepeat' = FALSE
    /\ gCopyEdges' = 0
    /\ UNCHANGED <<envVars, irqVars, sharedVars, mainVars, beginLocals,
                   capturedMillis, resultVars, edgeGhosts, gCopyTick,
                   gCopySec, gCopyFirst, beginGhosts, gTorn>>
    /\ UNCHANGED <<instance, fwVars>>

\* ---------------------------------------------------------------- update()
\* lines 90 and 99-102: choose the branch; the polling branch reads the
\* calendar and compares its seconds field with _lastSecond
UpdateEnter ==
    /\ ~IrqReady
    /\ pc = "idle"
    /\ lastOp' = "update"
    /\ commits' = 0
    /\ IF usingSqw /\ syncPending
       THEN /\ pc' = "u_mask"
            /\ rtcReads' = 0
            /\ UNCHANGED pollNow
       ELSE IF ~usingSqw /\ initialized
       THEN /\ pollNow' = RtcNow
            /\ rtcReads' = 1
            /\ pc' = IF RtcNow.ss # lastSecond THEN "p_commit" ELSE "idle"
       ELSE /\ pc' = "idle"
            /\ rtcReads' = 0
            /\ UNCHANGED pollNow
    /\ lastAct' = "main"
    /\ ret' = NoRet
    /\ gRetTick' = 0
    /\ gRetEdge' = FALSE
    /\ gRetRepeat' = FALSE
    /\ gCopyEdges' = 0
    /\ UNCHANGED <<envVars, irqVars, sharedVars, mainVars, beginLocals,
                   capturedMillis, resultVars, edgeGhosts, gCopyTick,
                   gCopySec, gCopyFirst, beginGhosts, gTorn>>
    /\ UNCHANGED <<instance, fwVars>>

\* variant: the copy is not protected by a critical section
NoInterruptsUnmasked ==
    /\ ~IrqReady
    /\ pc = "u_mask"
    /\ intsEnabled' = intsEnabled
    /\ pc' = "u_copy"
    /\ lastAct' = "main"
    /\ UNCHANGED <<envVars, attached, irqLatched, sharedVars, mainVars,
                   beginLocals, updateLocals, resultVars, ret, rtcReads,
                   commits, lastOp, ghostVars>>
    /\ UNCHANGED <<instance, fwVars>>

\* line 92: noInterrupts()
NoInterrupts ==
    /\ ~IrqReady
    /\ pc = "u_mask"
    /\ intsEnabled' = FALSE
    /\ pc' = "u_copy"
    /\ lastAct' = "main"
    /\ UNCHANGED <<envVars, attached, irqLatched, sharedVars, mainVars,
                   beginLocals, updateLocals, resultVars, ret, rtcReads,
                   commits, lastOp, ghostVars>>
    /\ UNCHANGED <<instance, fwVars>>

\* line 93: capturedMillis = _syncMillis
CopyCaptured ==
    /\ ~IrqReady
    /\ pc = "u_copy"
    /\ capturedMillis' = syncMillis
    /\ gCopyTick' = gEdgeTick
    /\ gCopySec' = gEdgeSec
    /\ gCopyEdges' = gEdges
    /\ gCopyFirst' = gFirstTick
    /\ gEdges' = 0
    /\ pc' = "u_clear"
    /\ lastAct' = "main"
    /\ UNCHANGED <<envVars, irqVars, sharedVars, mainVars, beginLocals,
                   pollNow, resultVars, ret, rtcReads, commits, lastOp,
                   gEdgeTick, gEdgeSec, gFirstTick, beginGhosts, obsGhosts>>
    /\ UNCHANGED <<instance, fwVars>>

\* variant: the pending flag is left set
ClearPendingKeeps ==
    /\ ~IrqReady
    /\ pc = "u_clear"
    /\ syncPending' = syncPending
    /\ pc' = "u_unmask"
    /\ lastAct' = "main"
    /\ UNCHANGED <<envVars, irqVars, syncMillis, mainVars, beginLocals,
                   updateLocals, resultVars, ret, rtcReads, commits, lastOp,
                   ghostVars>>
    /\ UNCHANGED <<instance, fwVars>>

\* line 94: _syncPending = false
ClearPending ==
    /\ ~IrqReady
    /\ pc = "u_clear"
    /\ syncPending' = FALSE
    /\ pc' = "u_unmask"
    /\ lastAct' = "main"
    /\ UNCHANGED <<envVars, irqVars, syncMillis, mainVars, beginLocals,
                   updateLocals, resultVars, ret, rtcReads, commits, lastOp,
                   ghostVars>>
    /\ UNCHANGED <<instance, fwVars>>

\* variant: the critical section is never closed
InterruptsStayMasked ==
    /\ ~IrqReady
    /\ pc = "u_unmask"
    /\ intsEnabled' = intsEnabled
    /\ pc' = "u_rtc"
    /\ lastAct' = "main"
    /\ UNCHANGED <<envVars, attached, irqLatched, sharedVars, mainVars,
                   beginLocals, updateLocals, resultVars, ret, rtcReads,
                   commits, lastOp, ghostVars>>
    /\ UNCHANGED <<instance, fwVars>>

\* line 95: interrupts()
Interrupts ==
    /\ ~IrqReady
    /\ pc = "u_unmask"
    /\ intsEnabled' = TRUE
    /\ pc' = "u_rtc"
    /\ lastAct' = "main"
    /\ UNCHANGED <<envVars, attached, irqLatched, sharedVars, mainVars,
                   beginLocals, updateLocals, resultVars, ret, rtcReads,
                   commits, lastOp, ghostVars>>
    /\ UNCHANGED <<instance, fwVars>>

\* line 97: _syncedTime = _rtc.now()
UpdateReadCalendar ==
    /\ ~IrqReady
    /\ pc = "u_rtc"
    /\ syncedTime' = RtcNow
    /\ gTorn' = TRUE
    /\ rtcReads' = rtcReads + 1
    /\ pc' = "u_commit"
    /\ lastAct' = "main"
    /\ UNCHANGED <<envVars, irqVars, sharedVars, lastSyncMillis, initialized,
                   usingSqw, lastSecond, beginLocals, updateLocals,
                   resultVars, ret, commits, lastOp, edgeGhosts, copyGhosts,
                   beginGhosts, retGhosts>>
    /\ UNCHANGED <<instance, fwVars>>

\* variant: the captured tick is never stored in the reference
UpdateCommitKeepsTick ==
    /\ ~IrqReady
    /\ pc = "u_commit"
    /\ lastSyncMillis' = lastSyncMillis
    /\ gTorn' = gTorn
    /\ commits' = commits + 1
    /\ pc' = "idle"
    /\ lastAct' = "main"
    /\ UNCHANGED <<envVars, irqVars, sharedVars, syncedTime, initialized,
                   usingSqw, lastSecond, beginLocals, updateLocals,
                   resultVars, ret, rtcReads, lastOp, edgeGhosts, copyGhosts,
                   beginGhosts, retGhosts>>
    /\ UNCHANGED <<instance, fwVars>>

\* line 98: _lastSyncMillis = capturedMillis
UpdateCommit ==
    /\ ~IrqReady
    /\ pc = "u_commit"
    /\ lastSyncMillis' = capturedMillis
    /\ gTorn' = FALSE
    /\ commits' = commits + 1
    /\ pc' = "idle"
    /\ lastAct' = "main"
    /\ UNCHANGED <<envVars, irqVars, sharedVars, syncedTime, initialized,
                   usingSqw, lastSecond, beginLocals, updateLocals,
                   resultVars, ret, rtcReads, lastOp, edgeGhosts, copyGhosts,
                   beginGhosts, retGhosts>>
    /\ UNCHANGED <<instance, fwVars>>

\* variant: a polling commit switches to interrupt mode
PollCommitPromotes ==
    /\ ~IrqReady
    /\ pc = "p_commit"
    /\ lastSecond' = pollNow.ss
    /\ syncedTime' = pollNow
    /\ lastSyncMillis' = tick
    /\ commits' = commits + 1
    /\ usingSqw' = TRUE
    /\ pc' = "idle"
    /\ lastAct' = "main"
    /\ UNCHANGED <<envVars, irqVars, sharedVars, initialized,
                   beginLocals, updateLocals, resultVars, ret, rtcReads,
                   lastOp, ghostVars>>
    /\ UNCHANGED <<instance, fwVars>>

\* variant: the polling commit leaves _lastSecond alone
PollCommitNoSecond ==
    /\ ~IrqReady
    /\ pc = "p_commit"
    /\ lastSecond' = lastSecond
    /\ syncedTime' = pollNow
    /\ lastSyncMillis' = tick
    /\ commits' = commits + 1
    /\ pc' = "idle"
    /\ lastAct' = "main"
    /\ UNCHANGED <<envVars, irqVars, sharedVars, initialized, usingSqw,
                   beginLocals, updateLocals, resultVars, ret, rtcReads,
                   lastOp, ghostVars>>
    /\ UNCHANGED <<instance, fwVars>>

\* variant: the polling commit keeps the old base wall time
PollCommitKeepsBase ==
    /\ ~IrqReady
    /\ pc = "p_commit"
    /\ lastSecond' = pollNow.ss
    /\ syncedTime' = syncedTime
    /\ lastSyncMillis' = tick
    /\ commits' = commits + 1
    /\ pc' = "idle"
    /\ lastAct' = "main"
    /\ UNCHANGED <<envVars, irqVars, sharedVars, initialized, usingSqw,
                   beginLocals, updateLocals, resultVars, ret, rtcReads,
                   lastOp, ghostVars>>
    /\ UNCHANGED <<instance, fwVars>>

\* lines 103-105: the polling commit
PollCommit ==
    /\ ~IrqReady
    /\ pc = "p_commit"
    /\ lastSecond' = pollNow.ss
    /\ syncedTime' = pollNow
    /\ lastSyncMillis' = tick
    /\ commits' = commits + 1
    /\ pc' = "idle"
    /\ lastAct' = "main"
    /\ UNCHANGED <<envVars, irqVars, sharedVars, initialized, usingSqw,
                   beginLocals, updateLocals, resultVars, ret, rtcReads,
                   lastOp, ghostVars>>
    /\ UNCHANGED <<instance, fwVars>>

\* ------------------------------------------- getTimestamp / getUnixMillis
\* PrecisionTime::getTimestamp(buffer, bufferSize)
GetTimestampInto(size) ==
    /\ ~IrqReady
    /\ pc = "idle"
    /\ IF ~initialized
       THEN /\ ret' = RetTimestamp(RtcNow, 0, size)
            /\ rtcReads' = 1
       ELSE /\ ret' = RetTimestamp(TimestampOf(tick, lastSyncMillis, syncedTime).dt,
                                 TimestampOf(tick, lastSyncMillis, syncedTime).ms, size)
            /\ rtcReads' = 0
    /\ lastOp' = "getTimestamp"
    /\ gRetTick' = tick
    /\ gRetEdge' = FALSE
    /\ gRetRepeat' = (ret.op = "getTimestamp" /\ gRetTick = tick /\ gRetEdge)
    /\ lastAct' = "main"
    /\ UNCHANGED <<envVars, irqVars, sharedVars, mainVars, pc, beginLocals,
                   updateLocals, resultVars, commits, edgeGhosts, copyGhosts,
                   beginGhosts, gTorn>>
    /\ UNCHANGED <<instance, fwVars>>

\* variant: the calendar is read on every call
GetTimestampReadsCalendar ==
    \E size \in {TimestampSize} :
       /\ ~IrqReady
       /\ pc = "idle"
       /\ IF ~initialized
          THEN /\ ret' = RetTimestamp(RtcNow, 0, size)
               /\ rtcReads' = 1
          ELSE /\ ret' = RetTimestamp(TimestampOf(tick, lastSyncMillis, syncedTime).dt,
                                    TimestampOf(tick, lastSyncMillis, syncedTime).ms, size)
               /\ rtcReads' = 1
       /\ lastOp' = "getTimestamp"
       /\ gRetTick' = tick
       /\ gRetEdge' = FALSE
       /\ gRetRepeat' = (ret.op = "getTimestamp" /\ gRetTick = tick /\ gRetEdge)
       /\ lastAct' = "main"
       /\ UNCHANGED <<envVars, irqVars, sharedVars, mainVars, pc, beginLocals,
                      updateLocals, resultVars, commits, edgeGhosts, copyGhosts,
                      beginGhosts, gTorn>>
       /\ UNCHANGED <<instance, fwVars>>

\* variant: the elapsed time is taken from _syncMillis
GetTimestampFromCaptured ==
    \E size \in {TimestampSize} :
       /\ ~IrqReady
       /\ pc = "idle"
       /\ IF ~initialized
          THEN /\ ret' = RetTimestamp(RtcNow, 0, size)
               /\ rtcReads' = 1
          ELSE /\ ret' = RetTimestamp(TimestampOf(tick, syncMillis, syncedTime).dt,
                                    TimestampOf(tick, syncMillis, syncedTime).ms, size)
               /\ rtcReads' = 0
       /\ lastOp' = "getTimestamp"
       /\ gRetTick' = tick
       /\ gRetEdge' = FALSE
       /\ gRetRepeat' = (ret.op = "getTimestamp" /\ gRetTick = tick /\ gRetEdge)
       /\ lastAct' = "main"
       /\ UNCHANGED <<envVars, irqVars, sharedVars, mainVars, pc, beginLocals,
                      updateLocals, resultVars, commits, edgeGhosts, copyGhosts,
                      beginGhosts, gTorn>>
       /\ UNCHANGED <<instance, fwVars>>

\* getTimestamp(m.timestamp, sizeof(m.timestamp)), the call the sketches make
GetTimestamp ==
    GetTimestampInto(TimestampSize)

\* variant: the uninitialized result carries the tick's milliseconds
GetUnixMillisPreInitTicks ==
    /\ ~IrqReady
    /\ pc = "idle"
    /\ IF ~initialized
       THEN /\ ret' = RetUnixMillis((Unixtime(RtcNow) * 1000)
                                   + (tick % MsPerSecond))
            /\ rtcReads' = 1
       ELSE /\ ret' = RetUnixMillis(UnixMillisOf(tick, lastSyncMillis, syncedTime))
            /\ rtcReads' = 0
    /\ lastOp' = "getUnixMillis"
    /\ gRetTick' = tick
    /\ gRetEdge' = FALSE
    /\ gRetRepeat' = (ret.op = "getUnixMillis" /\ gRetTick = tick /\ gRetEdge)
    /\ lastAct' = "main"
    /\ UNCHANGED <<envVars, irqVars, sharedVars, mainVars, pc, beginLocals,
                   updateLocals, resultVars, commits, edgeGhosts, copyGhosts,
                   beginGhosts, gTorn>>
    /\ UNCHANGED <<instance, fwVars>>

\* PrecisionTime::getUnixMillis
GetUnixMillis ==
    /\ ~IrqReady
    /\ pc = "idle"
    /\ IF ~initialized
       THEN /\ ret' = RetUnixMillis(Unixtime(RtcNow) * 1000)
            /\ rtcReads' = 1
       ELSE /\ ret' = RetUnixMillis(UnixMillisOf(tick, lastSyncMillis, syncedTime))
            /\ rtcReads' = 0
    /\ lastOp' = "getUnixMillis"
    /\ gRetTick' = tick
    /\ gRetEdge' = FALSE
    /\ gRetRepeat' = (ret.op = "getUnixMillis" /\ gRetTick = tick /\ gRetEdge)
    /\ lastAct' = "main"
    /\ UNCHANGED <<envVars, irqVars, sharedVars, mainVars, pc, beginLocals,
                   updateLocals, resultVars, commits, edgeGhosts, copyGhosts,
                   beginGhosts, gTorn>>
    /\ UNCHANGED <<instance, fwVars>>

\* ------------------------------------------------------------------- Next
Next ==
    \/ TickAdvance
    \/ RtcSecondEdge
    \/ RtcHalfSecond
    \/ OnSqwPulse
    \/ BeginEnter
    \/ BeginLoopTest
    \/ BeginSample
    \/ BeginSync
    \/ BeginFallbackRead
    \/ BeginFallbackCommit
    \/ UpdateEnter
    \/ NoInterrupts
    \/ CopyCaptured
    \/ ClearPending
    \/ Interrupts
    \/ UpdateReadCalendar
    \/ UpdateCommit
    \/ PollCommit
    \/ GetTimestamp
    \/ GetUnixMillis

Spec ==
    Init /\ [][Next]_vars

\* one statement of begin() after its entry
BeginStep ==
    \/ BeginLoopTest
    \/ BeginSample
    \/ BeginSync
    \/ BeginFallbackRead
    \/ BeginFallbackCommit

\* one statement of update(), its call included
UpdateStep ==
    \/ UpdateEnter
    \/ NoInterrupts
    \/ CopyCaptured
    \/ ClearPending
    \/ Interrupts
    \/ UpdateReadCalendar
    \/ UpdateCommit
    \/ PollCommit

\* begin() called once, then update() called over and over, as setup() and
\* loop() do
NextLive ==
    \/ TickAdvance
    \/ RtcSecondEdge
    \/ RtcHalfSecond
    \/ OnSqwPulse
    \/ BeginEnter
    \/ BeginStep
    \/ UpdateStep

\* the main context keeps executing its next statement, a requested handler
\* runs, and the tick source advances while it has steps left
SpecLive ==
    /\ Init
    /\ [][NextLive]_vars
    /\ WF_vars(BeginEnter \/ BeginStep \/ UpdateStep)
    /\ WF_vars(OnSqwPulse)
    /\ WF_vars(TickAdvance)

\* ticks already elapsed since the last commit when the edge signal is lost,
\* and the steps of the tick source from there: up to and past a whole turn
\* of the counter
LostElapsed ==
    {0, 1000, TickMod - 1}
FarSteps ==
    {1, 1000, TickMod - 1000}

\* the object in interrupt mode, synchronised at tick s to second b, whose
\* edge signal stopped afterwards (the line stays HIGH): no edge sets
\* _syncPending any more
InitSignalLost ==
    /\ instance = ConstructedInstance
    /\ \E s \in FnSyncs, e \in LostElapsed, b \in FnBases :
          /\ tick = (s + e) % TickMod
          /\ lastSyncMillis = s
          /\ syncedTime = DateTimeOf(b)
          /\ lastSecond = LastSecondInit
          /\ rtcStart = b
          /\ rtcSecs = b + (e \div MsPerSecond)
          /\ gBeginTick = s
          /\ gBeginSec = b
    /\ nTicks = 0
    /\ sqwLevel = HIGH
    /\ wiring = "stuckHigh"
    /\ attached = TRUE
    /\ intsEnabled = TRUE
    /\ irqLatched = FALSE
    /\ syncPending = FALSE
    /\ syncMillis = 0
    /\ initialized = TRUE
    /\ usingSqw = TRUE
    /\ pc = "idle"
    /\ timeout = 0
    /\ transitionCount = 0
    /\ lastState = HIGH
    /\ currentState = HIGH
    /\ capturedMillis = 0
    /\ pollNow = DateTimeDefault
    /\ beginDone = TRUE
    /\ beginResult = TRUE
    /\ ret = NoRet
    /\ rtcReads = 0
    /\ commits = 1
    /\ lastAct = "main"
    /\ lastOp = "begin"
    /\ gEdges = 0
    /\ gEdgeTick = 0
    /\ gEdgeSec = 0
    /\ gCopyTick = 0
    /\ gCopySec = 0
    /\ gCopyEdges = 0
    /\ gFirstTick = 0
    /\ gCopyFirst = 0
    /\ gSawFalling = TRUE
    /\ gTorn = FALSE
    /\ gRetTick = 0
    /\ gRetEdge = FALSE
    /\ gRetRepeat = FALSE
    /\ InitFirmwareGlobals
    /\ fwPc = "lib"
    /\ rtcPresent = TRUE
    /\ inaPresent = TRUE
    /\ displayPresent = TRUE

\* the tick source advances over long stretches without an edge
TickAdvanceFar ==
    /\ ~IrqReady
    /\ nTicks < MaxTickSteps
    /\ \E d \in FarSteps : tick' = (tick + d) % TickMod
    /\ nTicks' = nTicks + 1
    /\ lastAct' = "env"
    /\ UNCHANGED <<rtcSecs, rtcStart, sqwLevel, wiring, irqVars, sharedVars,
                   mainVars, pc, beginLocals, updateLocals, resultVars, ret,
                   rtcReads, commits, lastOp, ghostVars>>
    /\ UNCHANGED <<instance, fwVars>>

\* update() and getUnixMillis() called freely after the signal was lost
NextLost ==
    \/ TickAdvanceFar
    \/ UpdateEnter
    \/ GetUnixMillis

SpecLost ==
    InitSignalLost /\ [][NextLost]_vars

\* the formatting arithmetic alone: the getters applied to drawn inputs
NextFn ==
    \/ TickAdvance
    \/ GetTimestamp
    \/ GetUnixMillis

SpecFn ==
    InitFn /\ [][NextFn]_vars

\* getTimestamp() called with any buffer size
GetTimestampAnySize ==
    \E size \in BufferSizes : GetTimestampInto(size)

\* the formatting alone: getTimestamp() applied to drawn references, ticks
\* and buffer sizes
NextFmt ==
    \/ TickAdvance
    \/ GetTimestampAnySize

SpecFmt ==
    InitFmt /\ [][NextFmt]_vars

\* --------------------------------------------- firmware.ino: setup(), loop()
\* Config::MEASUREMENT_INTERVAL_MS, OUTPUT_INTERVAL_MS, DISPLAY_INTERVAL_MS
MEASUREMENT_INTERVAL_MS ==
    10
OUTPUT_INTERVAL_MS ==
    10
DISPLAY_INTERVAL_MS ==
    100

\* everything of the synchronizer and its environment that a firmware
\* statement outside the synchronizer leaves alone
libState ==
    <<instance, envVars, irqVars, sharedVars, mainVars, pc, beginLocals,
      updateLocals, resultVars, ret, rtcReads, commits, ghostVars>>

\* the boards explored: <<RTC, INA226, display>> answering on the bus. loop()
\* never reads the display state (showPower() returns at once without one),
\* so a board without display is explored where setup() stops in showError()
Boards ==
    {<<TRUE, TRUE, TRUE>>, <<FALSE, TRUE, TRUE>>, <<TRUE, FALSE, TRUE>>,
     <<FALSE, TRUE, FALSE>>, <<TRUE, FALSE, FALSE>>}

\* the firmware at power-up: the tick counter starts at 0 and which devices
\* answer is the board's choice
InitFw ==
    /\ InitPrecisionTime
    /\ tick = 0
    /\ InitFirmwareGlobals
    /\ fwPc = "setup_display"
    /\ \E b \in Boards :
          /\ rtcPresent = b[1]
          /\ inaPresent = b[2]
          /\ displayPresent = b[3]

\* OLEDStatus::showError(): shows the message, then `while (true) delay(1000)`
ShowError(component) ==
    /\ fatal' = component
    /\ fwPc' = "halted"

\* setup(): display.begin(); on failure _display stays null and setup goes on
SetupDisplay ==
    /\ ~IrqReady
    /\ fwPc = "setup_display"
    /\ displayInit' = displayPresent
    /\ fwPc' = "setup_rtc"
    /\ lastAct' = "main"
    /\ lastOp' = "setup"
    /\ UNCHANGED <<sqwWarning, rtcPresent, inaPresent, displayPresent, fatal,
                   rtcInitCalls, lastMeasurementTime, lastOutputTime,
                   lastDisplayTime, loopNow, currentMeasurement, csvLines>>
    /\ UNCHANGED <<gCsv, gMeasPrinted, oledShown>>
    /\ UNCHANGED libState

\* variant: showError() returns and setup() goes on to the next statement
SetupRtcContinues ==
    /\ ~IrqReady
    /\ fwPc = "setup_rtc"
    /\ rtcInitCalls' = rtcInitCalls + 1
    /\ IF rtcPresent
       THEN /\ fwPc' = "setup_sqw"
            /\ fatal' = fatal
       ELSE /\ fwPc' = "setup_sqw"
            /\ fatal' = "RTC"
    /\ lastAct' = "main"
    /\ lastOp' = "setup"
    /\ UNCHANGED <<sqwWarning, rtcPresent, inaPresent, displayPresent,
                   displayInit, lastMeasurementTime, lastOutputTime,
                   lastDisplayTime, loopNow, currentMeasurement, csvLines>>
    /\ UNCHANGED <<gCsv, gMeasPrinted, oledShown>>
    /\ UNCHANGED libState

\* setup(): if (!RTC::initialize()) display.showError("RTC", "Failed!")
SetupRtc ==
    /\ ~IrqReady
    /\ fwPc = "setup_rtc"
    /\ rtcInitCalls' = rtcInitCalls + 1
    /\ IF rtcPresent
       THEN /\ fwPc' = "setup_sqw"
            /\ fatal' = fatal
       ELSE ShowError("RTC")
    /\ lastAct' = "main"
    /\ lastOp' = "setup"
    /\ UNCHANGED <<sqwWarning, rtcPresent, inaPresent, displayPresent,
                   displayInit, lastMeasurementTime, lastOutputTime,
                   lastDisplayTime, loopNow, currentMeasurement, csvLines>>
    /\ UNCHANGED <<gCsv, gMeasPrinted, oledShown>>
    /\ UNCHANGED libState

\* setup(): the call precisionTime.begin()
SetupCallBegin ==
    /\ fwPc = "setup_sqw"
    /\ ~beginDone
    /\ BeginEnter

\* setup(): begin() has returned; its result only selects a warning line:
\* if (!precisionTime.begin()) Serial.println("[WARNING] ...")
SetupAfterBegin ==
    /\ ~IrqReady
    /\ fwPc = "setup_sqw"
    /\ beginDone
    /\ pc = "idle"
    /\ sqwWarning' = ~beginResult
    /\ fwPc' = "setup_ina"
    /\ lastAct' = "main"
    /\ lastOp' = "setup"
    /\ UNCHANGED <<rtcPresent, inaPresent, displayPresent, displayInit, fatal,
                   rtcInitCalls, lastMeasurementTime, lastOutputTime,
                   lastDisplayTime, loopNow, currentMeasurement, csvLines>>
    /\ UNCHANGED <<gCsv, gMeasPrinted, oledShown>>
    /\ UNCHANGED libState

\* setup(): if (!PowerMonitor::initialize()) display.showError("INA226", ..)
SetupIna ==
    /\ ~IrqReady
    /\ fwPc = "setup_ina"
    /\ IF inaPresent
       THEN /\ fwPc' = "setup_ready"
            /\ fatal' = fatal
       ELSE ShowError("INA226")
    /\ lastAct' = "main"
    /\ lastOp' = "setup"
    /\ UNCHANGED <<sqwWarning, rtcPresent, inaPresent, displayPresent,
                   displayInit, rtcInitCalls, lastMeasurementTime,
                   lastOutputTime, lastDisplayTime, loopNow,
                   currentMeasurement, csvLines>>
    /\ UNCHANGED <<gCsv, gMeasPrinted, oledShown>>
    /\ UNCHANGED libState

\* setup(): the CSV header, then lastMeasurementTime = lastDisplayTime =
\* millis(); setup() returns and loop() starts
SetupReady ==
    /\ ~IrqReady
    /\ fwPc = "setup_ready"
    /\ lastMeasurementTime' = tick
    /\ lastDisplayTime' = tick
    /\ fwPc' = "loop_top"
    /\ lastAct' = "main"
    /\ lastOp' = "loop"
    /\ UNCHANGED <<sqwWarning, rtcPresent, inaPresent, displayPresent,
                   displayInit, fatal, rtcInitCalls, lastOutputTime, loopNow,
                   currentMeasurement, csvLines>>
    /\ UNCHANGED <<gCsv, gMeasPrinted, oledShown>>
    /\ UNCHANGED libState

\* loop(): the call precisionTime.update()
LoopCallUpdate ==
    /\ fwPc = "loop_top"
    /\ lastOp = "loop"
    /\ UpdateEnter

\* loop(): the display part: showPower() and lastDisplayTime = now when the
\* display interval has passed
DisplayDue(now) ==
    Elapsed(now, lastDisplayTime) >= DISPLAY_INTERVAL_MS

\* variant: an iteration may go on without having called update()
LoopNowSkipsUpdate ==
    /\ ~IrqReady
    /\ fwPc = "loop_top"
    /\ lastOp \in {"loop", "update"}
    /\ pc = "idle"
    /\ IF Elapsed(tick, lastMeasurementTime) >= MEASUREMENT_INTERVAL_MS
       THEN /\ loopNow' = tick
            /\ fwPc' = "loop_read"
            /\ lastOp' = "now"
            /\ UNCHANGED lastDisplayTime
       ELSE /\ loopNow' = 0
            /\ fwPc' = "loop_top"
            /\ lastOp' = "loop"
            /\ lastDisplayTime' = IF DisplayDue(tick) THEN tick
                                  ELSE lastDisplayTime
    /\ lastAct' = "main"
    /\ UNCHANGED <<sqwWarning, rtcPresent, inaPresent, displayPresent,
                   displayInit, fatal, rtcInitCalls, lastMeasurementTime,
                   lastOutputTime, currentMeasurement, csvLines>>
    /\ UNCHANGED <<gCsv, gMeasPrinted, oledShown>>
    /\ UNCHANGED libState

\* loop(): now = millis(); if no measurement is due, the display part runs
\* and loop() returns; otherwise PowerMonitor::read() is next
LoopNow ==
    /\ ~IrqReady
    /\ fwPc = "loop_top"
    /\ lastOp = "update"
    /\ pc = "idle"
    /\ IF Elapsed(tick, lastMeasurementTime) >= MEASUREMENT_INTERVAL_MS
       THEN /\ loopNow' = tick
            /\ fwPc' = "loop_read"
            /\ lastOp' = "now"
            /\ UNCHANGED lastDisplayTime
       ELSE /\ loopNow' = 0
            /\ fwPc' = "loop_top"
            /\ lastOp' = "loop"
            /\ lastDisplayTime' = IF DisplayDue(tick) THEN tick
                                  ELSE lastDisplayTime
    /\ lastAct' = "main"
    /\ UNCHANGED <<sqwWarning, rtcPresent, inaPresent, displayPresent,
                   displayInit, fatal, rtcInitCalls, lastMeasurementTime,
                   lastOutputTime, currentMeasurement, csvLines>>
    /\ UNCHANGED <<gCsv, gMeasPrinted, oledShown>>
    /\ UNCHANGED libState

\* PowerMonitor::read(): precisionTime.getTimestamp(m.timestamp, ..)
LoopRead ==
    /\ fwPc = "loop_read"
    /\ lastOp = "now"
    /\ GetTimestamp

\* loop(): currentMeasurement = the value read; lastMeasurementTime = now;
\* printCSV() and lastOutputTime = now when the output interval has passed;
\* then the display part, and loop() returns
LoopOutput ==
    /\ ~IrqReady
    /\ fwPc = "loop_read"
    /\ lastOp = "getTimestamp"
    /\ currentMeasurement' = ret
    /\ lastMeasurementTime' = loopNow
    /\ IF Elapsed(loopNow, lastOutputTime) >= OUTPUT_INTERVAL_MS
       THEN /\ csvLines' = csvLines + 1
            /\ lastOutputTime' = loopNow
       ELSE UNCHANGED <<csvLines, lastOutputTime>>
    /\ lastDisplayTime' = IF DisplayDue(loopNow) THEN loopNow
                          ELSE lastDisplayTime
    /\ loopNow' = 0
    /\ fwPc' = "loop_top"
    /\ lastAct' = "main"
    /\ lastOp' = "loop"
    /\ UNCHANGED <<sqwWarning, rtcPresent, inaPresent, displayPresent,
                   displayInit, fatal, rtcInitCalls>>
    /\ UNCHANGED <<gCsv, gMeasPrinted, oledShown>>
    /\ UNCHANGED libState

NextFw ==
    \/ TickAdvance
    \/ RtcSecondEdge
    \/ RtcHalfSecond
    \/ OnSqwPulse
    \/ SetupDisplay
    \/ SetupRtc
    \/ SetupCallBegin
    \/ BeginLoopTest
    \/ BeginSample
    \/ BeginSync
    \/ BeginFallbackRead
    \/ BeginFallbackCommit
    \/ SetupAfterBegin
    \/ SetupIna
    \/ SetupReady
    \/ LoopCallUpdate
    \/ NoInterrupts
    \/ CopyCaptured
    \/ ClearPending
    \/ Interrupts
    \/ UpdateReadCalendar
    \/ UpdateCommit
    \/ PollCommit
    \/ LoopNow
    \/ LoopRead
    \/ LoopOutput

SpecFw ==
    InitFw /\ [][NextFw]_vars

\* ------------------------------------- the legacy sketch EdgePowerMeter.ino
\* value PrecisionTime::initialize() returns from the polling fallback
\* ("return true;  // Still return true since polling works")
LegacyFallbackReturnsFalse ==
    FALSE

LegacyFallbackReturn ==
    TRUE

\* initialize(): the end of the polling fallback; the statements before the
\* return are those of PrecisionTime::begin()
InitializeFallbackCommit ==
    /\ ~IrqReady
    /\ pc = "b_fb_commit"
    /\ lastSyncMillis' = tick
    /\ lastSecond' = syncedTime.ss
    /\ initialized' = TRUE
    /\ usingSqw' = FALSE
    /\ beginResult' = LegacyFallbackReturn
    /\ beginDone' = TRUE
    /\ pc' = "idle"
    /\ lastAct' = "main"
    /\ gBeginTick' = tick
    /\ gTorn' = FALSE
    /\ timeout' = 0
    /\ transitionCount' = 0
    /\ lastState' = HIGH
    /\ currentState' = HIGH
    /\ UNCHANGED <<envVars, irqVars, sharedVars, syncedTime,
                   updateLocals, ret, rtcReads, commits, lastOp, edgeGhosts,
                   copyGhosts, gSawFalling, gBeginSec, retGhosts>>
    /\ UNCHANGED <<instance, fwVars>>

\* setup(): if (!PrecisionTime::initialize()) Serial.println("[WARNING]
\* Running without SQW - ms timing degraded")
LegacySetupAfterInitialize ==
    /\ ~IrqReady
    /\ fwPc = "setup_sqw"
    /\ beginDone
    /\ pc = "idle"
    /\ sqwWarning' = ~beginResult
    /\ fwPc' = "setup_ina"
    /\ lastAct' = "main"
    /\ lastOp' = "setup"
    /\ UNCHANGED <<rtcPresent, inaPresent, displayPresent, displayInit, fatal,
                   rtcInitCalls, lastMeasurementTime, lastOutputTime,
                   lastDisplayTime, loopNow, currentMeasurement, csvLines>>
    /\ UNCHANGED <<gCsv, gMeasPrinted, oledShown>>
    /\ UNCHANGED libState

\* the legacy sketch from power-up to the return of setup(): the sequence of
\* setup() and the body of initialize() up to its fallback are, statement
\* for statement, those of firmware.ino and PrecisionTime::begin()
NextLegacySetup ==
    \/ TickAdvance
    \/ RtcSecondEdge
    \/ RtcHalfSecond
    \/ OnSqwPulse
    \/ SetupDisplay
    \/ SetupRtc
    \/ SetupCallBegin
    \/ BeginLoopTest
    \/ BeginSample
    \/ BeginSync
    \/ BeginFallbackRead
    \/ InitializeFallbackCommit
    \/ LegacySetupAfterInitialize
    \/ SetupIna
    \/ SetupReady

SpecLegacySetup ==
    InitFw /\ [][NextLegacySetup]_vars

\* ticks that pass between iterations of the legacy loop(): less than the
\* measurement interval, most of the display interval, and a whole second
LoopTickSteps ==
    {5, 95, 1000}

\* the tick source advances while the legacy sketch runs
TickAdvanceLoop ==
    /\ ~IrqReady
    /\ nTicks < MaxTickSteps
    /\ \E d \in LoopTickSteps : tick' = (tick + d) % TickMod
    /\ nTicks' = nTicks + 1
    /\ lastAct' = "env"
    /\ UNCHANGED <<rtcSecs, rtcStart, sqwLevel, wiring, irqVars, sharedVars,
                   mainVars, pc, beginLocals, updateLocals, resultVars, ret,
                   rtcReads, commits, lastOp, ghostVars>>
    /\ UNCHANGED <<instance, fwVars>>

\* Config::MEASUREMENT_INTERVAL_MS and DISPLAY_INTERVAL_MS of the legacy
\* sketch
LEGACY_MEASUREMENT_INTERVAL_MS ==
    10
LEGACY_DISPLAY_INTERVAL_MS ==
    100

\* what a CSV line printed in an iteration that took no measurement carries
CarriedWithoutRead ==
    IF currentMeasurement.op = "none" THEN "empty"
    ELSE IF gMeasPrinted THEN "again"
    ELSE "stale"

\* legacy loop(): now = millis() and the test of the measurement interval;
\* when no measurement is due the display part follows at once:
\* showPower(), printCSV(currentMeasurement), lastDisplayTime = now
LegacyLoopNow ==
    /\ ~IrqReady
    /\ fwPc = "loop_top"
    /\ lastOp = "update"
    /\ pc = "idle"
    /\ IF Elapsed(tick, lastMeasurementTime) >= LEGACY_MEASUREMENT_INTERVAL_MS
       THEN /\ loopNow' = tick
            /\ fwPc' = "loop_read"
            /\ lastOp' = "now"
            /\ UNCHANGED <<lastDisplayTime, csvLines, gCsv, gMeasPrinted>>
       ELSE /\ loopNow' = 0
            /\ fwPc' = "loop_top"
            /\ lastOp' = "loop"
            /\ IF Elapsed(tick, lastDisplayTime) >= LEGACY_DISPLAY_INTERVAL_MS
               THEN /\ csvLines' = csvLines + 1
                    /\ lastDisplayTime' = tick
                    /\ gCsv' = CarriedWithoutRead
                    /\ gMeasPrinted' = TRUE
               ELSE UNCHANGED <<lastDisplayTime, csvLines, gCsv, gMeasPrinted>>
    /\ lastAct' = "main"
    /\ UNCHANGED <<sqwWarning, rtcPresent, inaPresent, displayPresent,
                   displayInit, fatal, rtcInitCalls, lastMeasurementTime,
                   lastOutputTime, currentMeasurement, oledShown>>
    /\ UNCHANGED libState

\* legacy loop(): currentMeasurement = the value read; lastMeasurementTime =
\* now; then the display part with the same now, and loop() returns
LegacyLoopOutput ==
    /\ ~IrqReady
    /\ fwPc = "loop_read"
    /\ lastOp = "getTimestamp"
    /\ currentMeasurement' = ret
    /\ lastMeasurementTime' = loopNow
    /\ IF Elapsed(loopNow, lastDisplayTime) >= LEGACY_DISPLAY_INTERVAL_MS
       THEN /\ csvLines' = csvLines + 1
            /\ lastDisplayTime' = loopNow
            /\ gCsv' = "fresh"
            /\ gMeasPrinted' = TRUE
       ELSE /\ gMeasPrinted' = FALSE
            /\ UNCHANGED <<lastDisplayTime, csvLines, gCsv>>
    /\ loopNow' = 0
    /\ fwPc' = "loop_top"
    /\ lastAct' = "main"
    /\ lastOp' = "loop"
    /\ UNCHANGED <<sqwWarning, rtcPresent, inaPresent, displayPresent,
                   displayInit, fatal, rtcInitCalls, lastOutputTime,
                   oledShown>>
    /\ UNCHANGED libState

\* the legacy sketch: setup(), then loop() for ever
NextLegacy ==
    \/ TickAdvanceLoop
    \/ RtcSecondEdge
    \/ RtcHalfSecond
    \/ OnSqwPulse
    \/ SetupDisplay
    \/ SetupRtc
    \/ SetupCallBegin
    \/ BeginLoopTest
    \/ BeginSample
    \/ BeginSync
    \/ BeginFallbackRead
    \/ InitializeFallbackCommit
    \/ LegacySetupAfterInitialize
    \/ SetupIna
    \/ SetupReady
    \/ LoopCallUpdate
    \/ NoInterrupts
    \/ CopyCaptured
    \/ ClearPending
    \/ Interrupts
    \/ UpdateReadCalendar
    \/ UpdateCommit
    \/ PollCommit
    \/ LegacyLoopNow
    \/ LoopRead
    \/ LegacyLoopOutput

SpecLegacy ==
    InitFw /\ [][NextLegacy]_vars

\* --------------------------------------------------- OLEDStatus (display)
\* texts the callers pass
OledLines ==
    {"Edge", "Ready!", ""}
OledComponents ==
    {"RTC", "INA226"}

\* the OLEDStatus object after its constructor: _display is null
InitOled ==
    /\ InitPrecisionTime
    /\ InitFirmwareGlobals
    /\ fwPc = "oled_new"
    /\ rtcPresent = TRUE
    /\ inaPresent = TRUE
    /\ displayPresent \in BOOLEAN

\* what every OLEDStatus step leaves alone
OledFrame ==
    /\ lastAct' = "main"
    /\ UNCHANGED <<rtcPresent, inaPresent, displayPresent, rtcInitCalls,
                   lastMeasurementTime, lastOutputTime, lastDisplayTime,
                   loopNow, currentMeasurement, csvLines, sqwWarning, gCsv,
                   gMeasPrinted>>
    /\ UNCHANGED libState

\* what showMessage(line1, line2) draws: line2 only when it is not empty
DrawMessage(line1, line2) ==
    [kind |-> "message", line1 |-> line1, line2 |-> line2]

\* what showValue(label, value, unit, decimals) draws
DrawValue(label, unit) ==
    [kind |-> "value", line1 |-> label, line2 |-> unit]

\* what clearDisplay(); display() leaves
DrawBlank ==
    [kind |-> "blank", line1 |-> "", line2 |-> ""]

\* variant: a failed begin() keeps the pointer to the deleted object
OledBeginKeepsPointer ==
    /\ fwPc = "oled_new"
    /\ displayInit' = TRUE
    /\ oledShown' = IF displayPresent THEN DrawBlank ELSE oledShown
    /\ fwPc' = "oled_ready"
    /\ lastOp' = "oledBegin"
    /\ UNCHANGED fatal
    /\ OledFrame

\* OLEDStatus::begin(): on failure delete _display; _display = nullptr;
\* on success clear the panel. displayInit is _display != nullptr, the
\* value isInitialized() returns
OledBegin ==
    /\ fwPc = "oled_new"
    /\ displayInit' = displayPresent
    /\ oledShown' = IF displayPresent THEN DrawBlank ELSE oledShown
    /\ fwPc' = "oled_ready"
    /\ lastOp' = "oledBegin"
    /\ UNCHANGED fatal
    /\ OledFrame

\* OLEDStatus::showMessage(line1, line2)
OledShowMessage ==
    /\ fwPc \in {"oled_new", "oled_ready"}
    /\ \E l1 \in OledLines \ {""}, l2 \in OledLines :
          oledShown' = IF displayInit THEN DrawMessage(l1, l2) ELSE oledShown
    /\ lastOp' = "showMessage"
    /\ UNCHANGED <<fwPc, displayInit, fatal>>
    /\ OledFrame

\* OLEDStatus::showValue(label, value, unit, decimals)
OledShowValueOf(label, unit) ==
    /\ fwPc \in {"oled_new", "oled_ready"}
    /\ oledShown' = IF displayInit THEN DrawValue(label, unit) ELSE oledShown
    /\ UNCHANGED <<fwPc, displayInit, fatal>>
    /\ OledFrame

OledShowValue ==
    /\ lastOp' = "showValue"
    /\ OledShowValueOf("Energy", "J")

\* OLEDStatus::showPower(), showVoltage(), showCurrent(): showValue() with
\* their label and unit
OledShowPower ==
    /\ lastOp' = "showPower"
    /\ OledShowValueOf("Power", "W")

OledShowVoltage ==
    /\ lastOp' = "showVoltage"
    /\ OledShowValueOf("Voltage", "V")

OledShowCurrent ==
    /\ lastOp' = "showCurrent"
    /\ OledShowValueOf("Current", "A")

\* OLEDStatus::clear()
OledClear ==
    /\ fwPc \in {"oled_new", "oled_ready"}
    /\ oledShown' = IF displayInit THEN DrawBlank ELSE oledShown
    /\ lastOp' = "clear"
    /\ UNCHANGED <<fwPc, displayInit, fatal>>
    /\ OledFrame

\* OLEDStatus::showError(component, message): showMessage(), the [FATAL]
\* line on the serial port, then the endless loop
OledShowError ==
    /\ fwPc \in {"oled_new", "oled_ready"}
    /\ \E c \in OledComponents :
          /\ oledShown' = IF displayInit THEN DrawMessage(c, "Failed!")
                          ELSE oledShown
          /\ ShowError(c)
    /\ lastOp' = "showError"
    /\ UNCHANGED displayInit
    /\ OledFrame

\* the display object driven by an arbitrary caller
NextOled ==
    \/ OledBegin
    \/ OledShowMessage
    \/ OledShowValue
    \/ OledShowPower
    \/ OledShowVoltage
    \/ OledShowCurrent
    \/ OledClear
    \/ OledShowError

SpecOled ==
    InitOled /\ [][NextOled]_vars

\* ----------------------------------------------------------------- claims
\* update() has just returned from the interrupt branch: it drained at
\* least one edge and committed
IrqCommitReturned ==
    pc = "idle" /\ lastOp = "update" /\ gCopyEdges >= 1

\* begin() has just returned and no other operation has started
BeginJustReturned ==
    pc = "idle" /\ lastOp = "begin" /\ beginDone

\* C1: in interrupt mode every reference committed by update() pairs the
\* captured tick with the calendar second that began at the edge whose
\* handler captured that tick; baseWallTime is never the second of a later
\* edge.
C1_CommitPairsEdgeSecond ==
    IrqCommitReturned =>
        /\ lastSyncMillis = gCopyTick
        /\ Unixtime(syncedTime) = gCopySec

C3_FallingEdgeSelectsInterruptMode ==
    (beginDone /\ gSawFalling) =>
        /\ beginResult = TRUE
        /\ initialized
        /\ usingSqw
        /\ attached
        /\ BeginJustReturned =>
              /\ lastSyncMillis = gBeginTick
              /\ syncedTime = DateTimeOf(gBeginSec)
              /\ rtcReads = 1

C3_Witness ==
    BeginJustReturned /\ gSawFalling /\ tick # gBeginTick

\* C4: when begin() saw no falling edge before the deadline it has read the
\* calendar once, anchored syncInstant to the tick at that moment, set
\* LastObservedSecond to the seconds field of the read, set initialized with
\* polling mode, attached no handler and returned false.
C4_NoEdgeSelectsPolling ==
    (beginDone /\ ~gSawFalling) =>
        /\ beginResult = FALSE
        /\ initialized
        /\ ~usingSqw
        /\ ~attached
        /\ BeginJustReturned =>
              /\ rtcReads = 1
              /\ syncedTime = DateTimeOf(gBeginSec)
              /\ lastSyncMillis = gBeginTick
              /\ lastSecond = syncedTime.ss

C4_Witness ==
    BeginJustReturned /\ ~gSawFalling /\ wiring = "stuckLow"

\* C5: the value begin() returned equals isUsingSqw(), and isInitialized()
\* holds after begin() whichever mode was selected.
C5_ReturnIsPrecisionFlag ==
    beginDone => (beginResult = usingSqw /\ initialized)

C5_Witness ==
    beginDone /\ ~beginResult /\ initialized /\ lastOp = "getUnixMillis"

\* C6: once begin() has returned, no step of update(), the edge handler,
\* getTimestamp() or getUnixMillis() changes the mode or the initialized
\* flag.
C6_ModeIsPermanent ==
    [][beginDone => /\ beginDone'
                    /\ usingSqw' = usingSqw
                    /\ initialized' = initialized]_vars

C6_Witness ==
    beginDone /\ ~usingSqw /\ wiring = "ok" /\ pc = "idle"
        /\ lastOp = "update" /\ commits = 1

\* C7: update() copies _syncMillis and clears _syncPending with no handler
\* run in between, commits the copied tick, and an edge handled after the
\* copy leaves _syncPending set, also when update() returns.
C7_DrainIsAtomic ==
    /\ pc \in {"u_copy", "u_clear", "u_unmask"} => ~intsEnabled
    /\ pc \in {"u_clear", "u_unmask"} => gEdges = 0
    /\ gEdges > 0 => syncPending
    /\ IrqCommitReturned => lastSyncMillis = capturedMillis

C7_Witness ==
    IrqCommitReturned /\ gEdges > 0 /\ syncPending

\* C8: last-edge-wins: an update() that drains one or more edges commits
\* exactly once, and its syncInstant is the tick read by the most recent
\* handler run before the copy.
C8_LastEdgeWins ==
    /\ pc \in {"u_clear", "u_unmask", "u_rtc", "u_commit"} =>
           capturedMillis = gCopyTick
    /\ IrqCommitReturned => (commits = 1 /\ lastSyncMillis = gCopyTick)

C8_Witness ==
    IrqCommitReturned /\ gCopyEdges >= 2 /\ gCopyFirst # lastSyncMillis

\* C9: after an interrupt-mode commit the timestamp evaluated at the tick
\* syncInstant has milliseconds 0 and the epoch value is
\* unixtime(baseWallTime) * 1000.
C9_ZeroOffsetAtCommit ==
    IrqCommitReturned =>
        /\ TimestampOf(lastSyncMillis, lastSyncMillis, syncedTime).ms = 0
        /\ TimestampOf(lastSyncMillis, lastSyncMillis, syncedTime).dt
               = syncedTime
        /\ UnixMillisOf(lastSyncMillis, lastSyncMillis, syncedTime)
               = Unixtime(syncedTime) * 1000

C9_Witness ==
    IrqCommitReturned /\ lastSyncMillis % MsPerSecond # 0
        /\ tick # lastSyncMillis

\* C10: a step of the edge handler sets _syncPending and stores the current
\* tick in _syncMillis, reads no calendar and leaves the reference, the
\* mode, the initialized flag and _lastSecond alone; these change only in
\* steps of the main context.
C10_HandlerFrame ==
    [][/\ lastAct' = "isr" => /\ syncPending' = TRUE
                              /\ syncMillis' = tick
                              /\ UNCHANGED <<mainVars, rtcReads>>
       /\ mainVars' # mainVars => lastAct' = "main"]_vars

C10_Witness ==
    lastAct = "isr" /\ syncPending /\ syncMillis = tick /\ gEdges >= 2

\* a step of getTimestamp() or getUnixMillis()
GetterStep ==
    lastAct' = "main" /\ lastOp' \in {"getTimestamp", "getUnixMillis"}

\* ticks from a to b on the wrapping counter
TicksBetween(a, b) ==
    IF b >= a THEN b - a ELSE b + TickMod - a

\* C11: no getTimestamp() or getUnixMillis() evaluation sees a reference of
\* which one field is written and the other not yet, under any interleaving
\* of edge interrupts with the main context.
C11_NoTornReference ==
    [][GetterStep => ~gTorn]_vars

C11_Witness ==
    /\ lastOp = "getUnixMillis" /\ ret.op = "getUnixMillis"
    /\ usingSqw /\ commits = 1 /\ gEdges >= 1 /\ ~gTorn

\* C12: in polling mode a call of update() reads the calendar exactly once;
\* it commits {current tick, that read} and sets _lastSecond iff the seconds
\* field of the read differs from _lastSecond; otherwise the reference and
\* _lastSecond are unchanged.
C12_PollingUpdate ==
    [][/\ (pc = "idle" /\ lastAct' = "main" /\ lastOp' = "update"
             /\ ~usingSqw /\ initialized) =>
             /\ rtcReads' = 1
             /\ pollNow' = DateTimeOf(rtcSecs)
             /\ UNCHANGED mainVars
             /\ pc' = IF DateTimeOf(rtcSecs).ss # lastSecond
                      THEN "p_commit" ELSE "idle"
       /\ (pc = "p_commit" /\ pc' # "p_commit") =>
             /\ pc' = "idle"
             /\ rtcReads' = 1
             /\ commits' = 1
             /\ syncedTime' = pollNow
             /\ lastSyncMillis' = tick
             /\ lastSecond' = pollNow.ss
             /\ UNCHANGED <<initialized, usingSqw>>
       /\ (pc = "p_commit" /\ pc' = "p_commit") => UNCHANGED mainVars]_vars

C12_Witness ==
    /\ pc = "idle" /\ lastOp = "update" /\ ~usingSqw /\ initialized
    /\ commits = 1 /\ rtcReads = 1 /\ lastSecond = syncedTime.ss
    /\ rtcSecs # gBeginSec

\* C13: in polling mode two getUnixMillis() calls with no commit between
\* them differ by the ticks elapsed between them, and at a polling commit
\* the value for the commit tick is unixtime(new calendar time) * 1000.
C13_PollingAdvances ==
    [][/\ (GetterStep /\ lastOp' = "getUnixMillis"
             /\ ret.op = "getUnixMillis" /\ initialized /\ ~usingSqw) =>
             ret'.val - ret.val = TicksBetween(gRetTick, tick)
       /\ (pc = "p_commit" /\ pc' = "idle") =>
             UnixMillisOf(tick, lastSyncMillis', syncedTime')
                 = Unixtime(pollNow) * 1000]_vars

C13_Witness ==
    /\ beginDone /\ ~usingSqw /\ ret.op = "getUnixMillis"
    /\ syncedTime # DateTimeOf(gBeginSec)
    /\ TicksBetween(lastSyncMillis, gRetTick) >= MsPerSecond

\* C14: once initialized, for a tick t >= syncInstant the milliseconds field
\* is (t - syncInstant) mod 1000, the wall time is baseWallTime plus
\* (t - syncInstant) div 1000 seconds, and getUnixMillis() is the unixtime
\* of that wall time times 1000 plus the milliseconds.
C14_ElapsedSplit ==
    (initialized /\ ret.op # "none" /\ gRetTick >= lastSyncMillis) =>
        /\ ret.op = "getTimestamp" =>
              /\ ret.ms = (gRetTick - lastSyncMillis) % 1000
              /\ ret.dt = DateTimeOf(Unixtime(syncedTime)
                              + ((gRetTick - lastSyncMillis) \div 1000))
        /\ ret.op = "getUnixMillis" =>
              ret.val = ((Unixtime(syncedTime)
                              + ((gRetTick - lastSyncMillis) \div 1000)) * 1000)
                          + ((gRetTick - lastSyncMillis) % 1000)

C14_Witness ==
    /\ initialized /\ ret.op = "getTimestamp"
    /\ gRetTick - lastSyncMillis > MsPerSecond

\* the second after dt, carried field by field
NextSecond(dt) ==
    IF dt.ss < 59 THEN [dt EXCEPT !.ss = @ + 1]
    ELSE IF dt.mm < 59 THEN [dt EXCEPT !.ss = 0, !.mm = @ + 1]
    ELSE IF dt.hh < 23 THEN [dt EXCEPT !.ss = 0, !.mm = 0, !.hh = @ + 1]
    ELSE [days |-> dt.days + 1, hh |-> 0, mm |-> 0, ss |-> 0]

\* C15: elapsed = 999 gives ms = 999 and the base wall time itself;
\* elapsed = 1000 gives ms = 0 and the base wall time plus one second, the
\* carry running through minute, hour and day (23:59:59 becomes 00:00:00 of
\* the next day).
C15_SecondBoundary ==
    /\ (ret.op = "getTimestamp"
          /\ TicksBetween(lastSyncMillis, gRetTick) = 999) =>
          (ret.ms = 999 /\ ret.dt = syncedTime)
    /\ (ret.op = "getTimestamp"
          /\ TicksBetween(lastSyncMillis, gRetTick) = 1000) =>
          (ret.ms = 0 /\ ret.dt = NextSecond(syncedTime))
    /\ (ret.op = "getUnixMillis"
          /\ TicksBetween(lastSyncMillis, gRetTick) = 999) =>
          ret.val = (Unixtime(syncedTime) * 1000) + 999
    /\ (ret.op = "getUnixMillis"
          /\ TicksBetween(lastSyncMillis, gRetTick) = 1000) =>
          ret.val = Unixtime(NextSecond(syncedTime)) * 1000

C15_Witness ==
    /\ ret.op = "getTimestamp"
    /\ TicksBetween(lastSyncMillis, gRetTick) = 1000
    /\ syncedTime = [days |-> 0, hh |-> 23, mm |-> 59, ss |-> 59]
    /\ ret.dt = [days |-> 1, hh |-> 0, mm |-> 0, ss |-> 0]
    /\ ret.ms = 0

\* C16: when the tick counter has wrapped since the last commit, elapsed is
\* the number of ticks since the commit (never more than the ticks the
\* counter advanced in all) and the timestamp continues from the reference
\* without a jump.
C16_WraparoundSafe ==
    (initialized /\ ret.op # "none" /\ gRetTick < lastSyncMillis) =>
        /\ gRetTick + TickMod - lastSyncMillis <= MaxTickSteps * 1000
        /\ ret.op = "getUnixMillis" =>
              ret.val = (Unixtime(syncedTime) * 1000)
                          + (gRetTick + TickMod - lastSyncMillis)
        /\ ret.op = "getTimestamp" =>
              /\ ret.ms = (gRetTick + TickMod - lastSyncMillis) % 1000
              /\ Unixtime(ret.dt) = Unixtime(syncedTime)
                    + ((gRetTick + TickMod - lastSyncMillis) \div 1000)

C16_Witness ==
    initialized /\ ret.op = "getUnixMillis" /\ gRetTick < lastSyncMillis

\* C17: once initialized, a step of getTimestamp() or getUnixMillis() reads
\* no calendar and leaves the reference, the mode, the initialized flag,
\* _syncPending, _syncMillis and _lastSecond unchanged.
C17_GettersOnlyRead ==
    [][(GetterStep /\ initialized) =>
           /\ rtcReads' = 0
           /\ UNCHANGED <<mainVars, sharedVars, irqVars>>]_vars

C17_Witness ==
    /\ initialized /\ lastOp = "getTimestamp" /\ lastAct = "main"
    /\ ret.op = "getTimestamp" /\ syncPending

\* C18 as stated: two consecutive getTimestamp() calls with no tick advance
\* and no update() between them return identical output.
C18_RepeatIsIdentical ==
    [][(GetterStep /\ lastOp' = "getTimestamp" /\ ret.op = "getTimestamp"
          /\ gRetTick = tick) => (ret'.dt = ret.dt /\ ret'.ms = ret.ms)]_vars

\* C18 amended: once begin() has committed a reference, two consecutive
\* getTimestamp() calls with no tick advance and no update() between them
\* return identical output, also when the edge handler runs between them.
C18_RepeatIsIdenticalOnceInitialized ==
    [][(GetterStep /\ lastOp' = "getTimestamp" /\ ret.op = "getTimestamp"
          /\ gRetTick = tick /\ initialized)
           => (ret'.dt = ret.dt /\ ret'.ms = ret.ms)]_vars

C18_Witness ==
    /\ initialized /\ ret.op = "getTimestamp" /\ gRetRepeat
    /\ syncMillis # lastSyncMillis

\* C19: before begin() has committed a reference, getTimestamp() returns the
\* calendar read with milliseconds 000 and getUnixMillis() returns
\* unixtime(calendar read) * 1000, whatever the tick.
C19_UninitializedIsRawCalendar ==
    [][(GetterStep /\ ~initialized) =>
           /\ rtcReads' = 1
           /\ lastOp' = "getTimestamp" =>
                 (ret'.dt = DateTimeOf(rtcSecs) /\ ret'.ms = 0)
           /\ lastOp' = "getUnixMillis" => ret'.val = rtcSecs * 1000]_vars

C19_Witness ==
    /\ ~initialized /\ ret.op = "getUnixMillis" /\ nTicks > 0
    /\ gRetTick = tick /\ rtcSecs > rtcStart

\* C20: when the RTC is not found at startup the firmware stops in
\* showError("RTC") for good: RTC::initialize() is called once and not
\* again, precisionTime.begin() is never called, loop() never runs and no
\* CSV line is printed.
C20_RtcAbsentHalts ==
    ~rtcPresent =>
        /\ rtcInitCalls <= 1
        /\ rtcInitCalls = 1 => (fwPc = "halted" /\ fatal = "RTC")
        /\ fwPc \in {"setup_display", "setup_rtc", "halted"}
        /\ ~beginDone /\ pc = "idle" /\ ~initialized
        /\ lastOp \in {"none", "setup"}
        /\ csvLines = 0
        /\ currentMeasurement = NoRet

C20_Witness ==
    /\ ~rtcPresent /\ fwPc = "halted" /\ fatal = "RTC"
    /\ nTicks = MaxTickSteps /\ rtcSecs > rtcStart
    /\ inaPresent /\ displayInit

\* begin(): startWait, recovered from the deadline it computed
StartWait ==
    (timeout + TickMod - SyncTimeoutMs) % TickMod

InBeginLoop ==
    pc \in {"b_loop", "b_read"}

\* C21: begin() always leaves its edge-detection loop: with the main context
\* running, the loop is left unless the tick source has stopped advancing
\* while fewer than 2500 ticks have passed since the loop started.
C21_BeginTerminates ==
    InBeginLoop ~>
        (\/ ~InBeginLoop
         \/ (nTicks = MaxTickSteps
               /\ TicksBetween(StartWait, tick) < SyncTimeoutMs))

C21_Witness ==
    /\ pc = "b_fb_read" /\ transitionCount < 2
    /\ gBeginTick # StartWait
    /\ TicksBetween(StartWait, gBeginTick) < SyncTimeoutMs
    /\ TicksBetween(StartWait, tick) >= SyncTimeoutMs

\* C22: interrupts are masked only between noInterrupts() and interrupts(),
\* that is around the copy of _syncMillis and the clearing of _syncPending;
\* both calendar reads of update() run with interrupts enabled, and update()
\* returns with interrupts enabled on every path.
C22_MaskOnlyAroundCopy ==
    [][/\ ~intsEnabled' => pc' \in {"u_copy", "u_clear", "u_unmask"}
       /\ (lastOp' = "update" /\ pc' = "idle") => intsEnabled'
       /\ (lastOp' = "update" /\ rtcReads' = rtcReads + 1) =>
             (intsEnabled /\ intsEnabled')
       /\ (lastOp' = "update" /\ pollNow' # pollNow) =>
             (intsEnabled /\ intsEnabled')]_vars

C22_Witness ==
    /\ pc = "u_commit" /\ rtcReads = 1 /\ intsEnabled
    /\ gEdges >= 1 /\ syncPending

\* C23: every iteration of loop() starts with the call of update(), and
\* the timestamp of the iteration's measurement is computed only after that
\* update() has returned and `now` was taken, with no other timestamp
\* computed since the update() call.
C23_UpdateFirstInLoop ==
    [][/\ (fwPc = "loop_top" /\ lastOp = "loop" /\ lastAct' = "main") =>
             lastOp' = "update"
       /\ (lastOp' = "now" /\ lastOp # "now") =>
             (lastOp = "update" /\ pc = "idle")
       /\ GetterStep =>
             (lastOp = "now" /\ pc = "idle" /\ ret = NoRet)
       /\ (fwPc \in {"loop_top", "loop_read"} /\ lastOp # "loop"
             /\ lastOp' = "loop") =>
             lastOp \in {"update", "getTimestamp"}]_vars

C23_Witness ==
    /\ fwPc = "loop_top" /\ lastOp = "loop" /\ csvLines >= 2
    /\ usingSqw /\ commits = 1 /\ currentMeasurement.op = "getTimestamp"
    /\ lastSyncMillis # gBeginTick

DigitChars ==
    {"0", "1", "2", "3", "4", "5", "6", "7", "8", "9"}

\* the character the form YYYY-MM-DD HH:MM:SS.mmm allows at position i
FormAllows(i, c) ==
    IF i \in {5, 8} THEN c = "-"
    ELSE IF i = 11 THEN c = " "
    ELSE IF i \in {14, 17} THEN c = ":"
    ELSE IF i = 20 THEN c = "."
    ELSE c \in DigitChars

\* C24: getTimestamp(buffer, size) writes at most size bytes: at most
\* size - 1 characters and a terminator; for size >= 24 the characters are
\* exactly the 23 of YYYY-MM-DD HH:MM:SS.mmm, with mmm in 000..999.
C24_BoundedWrite ==
    ret.op = "getTimestamp" =>
        /\ ret.bytes <= ret.size
        /\ ret.size > 0 => (ret.bytes = Len(ret.buf) + 1
                              /\ Len(ret.buf) <= ret.size - 1)
        /\ ret.size >= 24 =>
              /\ Len(ret.buf) = 23
              /\ \A i \in 1..23 : FormAllows(i, ret.buf[i])
              /\ ret.ms \in 0..999

C24_Witness ==
    /\ ret.op = "getTimestamp" /\ ret.size = 24 /\ ret.bytes = 24
    /\ ret.buf = <<"2", "0", "6", "8", "-", "0", "1", "-", "0", "1", " ",
                   "0", "0", ":", "0", "0", ":", "0", "0", ".",
                   "9", "9", "9">>

\* the instant a getTimestamp() result denotes, in milliseconds; it is the
\* value getUnixMillis() computes from the same reference and tick
TimestampMillis(r) ==
    (Unixtime(r.dt) * 1000) + r.ms

\* C25: the timestamps the main loop reads one after the other never
\* decrease, whatever tick advances, edge interrupts and update() commits
\* happen between two reads, in interrupt mode and in polling mode.
C25_SuccessiveReadsNeverDecrease ==
    [][(GetterStep /\ currentMeasurement.op = "getTimestamp") =>
           TimestampMillis(ret') >= TimestampMillis(currentMeasurement)]_vars

\* C26: with a healthy 1 Hz square wave on a working wire, begin() selects
\* interrupt mode whatever the tick at its start: it falls back to polling
\* only after a wait in which a healthy wave would have shown a falling
\* edge, that is a wait of at least 1000 ticks, also when startWait + 2500
\* overflows.
C26_HealthyWaveSelectsInterruptMode ==
    (beginDone /\ ~usingSqw /\ wiring = "ok") =>
        TicksBetween(StartWait, gBeginTick) >= MsPerSecond

\* C27: in interrupt mode, with update() called over and over, a pending
\* edge is always drained: a state follows in which update() has returned,
\* pending is false, no handler has run since the last copy, and the sync
\* instant is the tick captured by the most recent handler run (that edge's
\* tick or a later one).
C27_EveryEdgeDrained ==
    (usingSqw /\ syncPending) ~>
        (/\ pc = "idle" /\ ~syncPending /\ gEdges = 0
         /\ lastSyncMillis = gCopyTick /\ lastSyncMillis = gEdgeTick)

C27_Witness ==
    /\ usingSqw /\ pc = "idle" /\ ~syncPending /\ gEdges = 0
    /\ lastOp = "update" /\ commits = 1 /\ gCopyEdges >= 2
    /\ lastSyncMillis = gEdgeTick /\ gFirstTick # gEdgeTick

\* C28: in interrupt mode a call of update() that finds pending false
\* returns at once, reads no calendar and changes nothing; a calendar read
\* in interrupt mode belongs to the draining of at least one edge and
\* happens at most once per call.
C28_IdleUpdateIsNoOp ==
    [][/\ (pc = "idle" /\ lastAct' = "main" /\ lastOp' = "update"
             /\ usingSqw /\ ~syncPending) =>
             /\ pc' = "idle" /\ rtcReads' = 0 /\ commits' = 0
             /\ UNCHANGED <<mainVars, sharedVars, irqVars, updateLocals>>
       /\ (usingSqw /\ lastOp' = "update" /\ rtcReads' # 0) =>
             (rtcReads' = 1 /\ gCopyEdges' >= 1
                /\ pc' \in {"u_commit", "idle"})]_vars

C28_Witness ==
    /\ usingSqw /\ pc = "idle" /\ lastOp = "update" /\ ~syncPending
    /\ rtcReads = 0 /\ commits = 0 /\ gCopyEdges = 0
    /\ Unixtime(syncedTime) > gBeginSec /\ rtcSecs > Unixtime(syncedTime)

\* C29: with no commit in between, a later getUnixMillis() never returns
\* less than an earlier one, however many ticks have elapsed since the last
\* commit, a whole turn of the tick counter included.
C29_NonDecreasingWithoutCommit ==
    [][(ret.op = "getUnixMillis" /\ ret'.op = "getUnixMillis"
          /\ UNCHANGED <<lastSyncMillis, syncedTime>>) =>
            ret'.val >= ret.val]_vars

\* C30: in the legacy sketch initialize() returns true when it selects
\* interrupt mode and when it falls back to polling, so the result is the
\* same in both modes and setup() never prints the degraded-timing warning.
C30_LegacyInitializeAlwaysTrue ==
    /\ beginDone => beginResult
    /\ ~sqwWarning

C30_Witness ==
    /\ fwPc = "setup_ina" /\ lastOp = "setup"
    /\ beginDone /\ beginResult /\ initialized /\ ~usingSqw
    /\ ~sqwWarning

\* C31: in polling mode, in every state from the return of begin() on,
\* _lastSecond is the seconds field of the base wall time _syncedTime.
C31_LastSecondIsBaseSecond ==
    (initialized /\ ~usingSqw) => lastSecond = syncedTime.ss

C31_Witness ==
    /\ initialized /\ ~usingSqw /\ pc = "idle" /\ lastOp = "update"
    /\ commits = 1 /\ Unixtime(syncedTime) > gBeginSec
    /\ lastSecond = syncedTime.ss /\ lastSecond # DateTimeOf(gBeginSec).ss

\* C32: the edge handler is registered exactly when begin() selected
\* interrupt mode; before begin() and in polling mode no handler runs, so
\* _syncPending stays false and _syncMillis stays 0.
C32_HandlerOnlyInInterruptMode ==
    /\ attached <=> usingSqw
    /\ ~usingSqw =>
          (~syncPending /\ syncMillis = 0 /\ ~irqLatched /\ gEdges = 0)

C32_Witness ==
    /\ initialized /\ ~usingSqw /\ ~attached /\ wiring = "ok"
    /\ pc = "idle" /\ lastOp = "update" /\ commits = 1
    /\ rtcSecs > gBeginSec + 1 /\ sqwLevel = LOW
    /\ ~syncPending /\ syncMillis = 0

\* C33: whenever _syncPending is true, in particular when update() tests it
\* and when it copies, _syncMillis is the tick read by the most recent run
\* of the edge handler.
C33_PendingPairIsLatestEdge ==
    syncPending => (attached /\ syncMillis = gEdgeTick)

C33_Witness ==
    /\ pc = "u_copy" /\ ~intsEnabled /\ syncPending
    /\ gEdges >= 2 /\ gFirstTick # gEdgeTick /\ syncMillis = gEdgeTick

\* C34: update() called before begin() returns at once: it reads no
\* calendar, registers no handler and leaves the reference, the mode, the
\* initialized flag, the pending pair and _lastSecond as they were.
C34_UpdateBeforeBeginIsNoOp ==
    [][(~initialized /\ ~beginDone /\ pc = "idle"
          /\ lastAct' = "main" /\ lastOp' = "update") =>
            /\ pc' = "idle" /\ rtcReads' = 0 /\ commits' = 0
            /\ UNCHANGED <<mainVars, sharedVars, irqVars, updateLocals>>]_vars

C34_Witness ==
    /\ ~initialized /\ ~beginDone /\ pc = "idle" /\ lastOp = "update"
    /\ rtcReads = 0 /\ commits = 0 /\ ~attached /\ ~usingSqw
    /\ rtcSecs > rtcStart /\ lastSecond = LastSecondInit
    /\ lastSyncMillis = 0 /\ syncedTime = DateTimeDefault

\* the number a sequence of digit characters denotes
DigitValue(c) ==
    CHOOSE n \in 0..9 : Digit(n) = c

RECURSIVE ParseDecimal(_)
ParseDecimal(str) ==
    IF str = <<>> THEN 0
    ELSE ParseDecimal(SubSeq(str, 1, Len(str) - 1)) * 10
             + DigitValue(str[Len(str)])

\* Gregorian calendar: days from 2000-01-01 to the given date
IsLeapYear(y) ==
    y % 4 = 0 /\ (y % 100 # 0 \/ y % 400 = 0)

RECURSIVE DaysBeforeYear(_)
DaysBeforeYear(y) ==
    IF y <= 2000 THEN 0
    ELSE DaysBeforeYear(y - 1) + (IF IsLeapYear(y - 1) THEN 366 ELSE 365)

RECURSIVE DaysBeforeMonth(_, _)
DaysBeforeMonth(y, m) ==
    IF m <= 1 THEN 0
    ELSE DaysBeforeMonth(y, m - 1)
           + (IF m - 1 = 2 THEN (IF IsLeapYear(y) THEN 29 ELSE 28)
              ELSE IF m - 1 \in {4, 6, 9, 11} THEN 30 ELSE 31)

\* the instant a string YYYY-MM-DD HH:MM:SS.mmm denotes, in milliseconds on
\* the scale of Unixtime
StringMillis(str) ==
    (((DaysBeforeYear(ParseDecimal(SubSeq(str, 1, 4)))
         + DaysBeforeMonth(ParseDecimal(SubSeq(str, 1, 4)),
                           ParseDecimal(SubSeq(str, 6, 7)))
         + ParseDecimal(SubSeq(str, 9, 10)) - 1) * 86400
        + ParseDecimal(SubSeq(str, 12, 13)) * 3600
        + ParseDecimal(SubSeq(str, 15, 16)) * 60
        + ParseDecimal(SubSeq(str, 18, 19))) * 1000)
      + ParseDecimal(SubSeq(str, 21, 23))

\* the two getters were called one right after the other at the same tick
\* and, before initialization, at the same calendar second
GetterPair(first, second) ==
    /\ ret.op = first /\ ret'.op = second /\ lastOp' = second
    /\ lastAct' = "main" /\ gRetTick = tick
    /\ initialized \/ (first = "getTimestamp" /\ ret.dt = RtcNow)

\* C35: for the same reference and tick the string of getTimestamp() and
\* the integer of getUnixMillis() are the same instant: the string's date,
\* time and millisecond fields converted to milliseconds give the integer.
C35_StringAndIntegerAgree ==
    [][/\ GetterPair("getTimestamp", "getUnixMillis") =>
             StringMillis(ret.buf) = ret'.val
       /\ (GetterPair("getUnixMillis", "getTimestamp") /\ initialized) =>
             StringMillis(ret'.buf) = ret.val]_vars

C35_Witness ==
    /\ initialized /\ pc = "idle"
    /\ ret.op = "getTimestamp" /\ gRetTick = tick /\ ret.size = TimestampSize
    /\ tick < lastSyncMillis /\ ret.ms > 0 /\ ret.dt.days > syncedTime.days
    /\ StringMillis(ret.buf) = UnixMillisOf(tick, lastSyncMillis, syncedTime)

\* C36: every CSV line loop() prints carries a measurement read in the same
\* iteration of loop(): none is printed twice, none before the first read.
C36_CsvLineIsFresh ==
    gCsv \in {"none", "fresh"}

OledDrawOps ==
    {"showMessage", "showValue", "showPower", "showVoltage", "showCurrent",
     "clear"}

\* C37: after a failed OLEDStatus::begin() _display is null and
\* isInitialized() is false; showMessage, showValue, showPower, showVoltage,
\* showCurrent and clear then return without touching the panel, while
\* showError still prints the fatal message and never returns.
C37_FailedBeginDisablesDisplay ==
    [][/\ (lastOp' = "oledBegin" /\ lastOp # "oledBegin" /\ ~displayPresent)
             => (~displayInit' /\ oledShown' = oledShown)
       /\ (fwPc = "oled_ready" /\ ~displayPresent /\ lastAct' = "main"
             /\ lastOp' \in OledDrawOps)
             => (~displayInit /\ fwPc' = "oled_ready"
                   /\ UNCHANGED <<oledShown, displayInit, fatal>>)
       /\ (fwPc = "oled_ready" /\ ~displayPresent /\ lastAct' = "main"
             /\ lastOp' = "showError")
             => (fatal' \in OledComponents /\ fwPc' = "halted"
                   /\ oledShown' = oledShown)
       /\ fwPc = "halted" => UNCHANGED <<fwPc, fatal, oledShown>>]_vars

C37_Witness ==
    /\ ~displayPresent /\ ~displayInit /\ fwPc = "halted"
    /\ fatal = "INA226" /\ lastOp = "showError" /\ oledShown = NothingShown

\* C38: _instance is set by the constructor and no step of begin(), update()
\* or the handler changes it; every run of the handler stores the tick and
\* raises the flag in the object whose begin() registered it.
C38_InstanceSetOnce ==
    [][/\ instance = "this" /\ instance' = instance
       /\ lastAct' = "isr" =>
             (attached /\ usingSqw /\ syncPending' /\ syncMillis' = tick)]_vars

C38_Witness ==
    /\ instance = "this" /\ lastAct = "isr" /\ attached /\ usingSqw
    /\ lastOp = "update" /\ pc = "idle" /\ syncPending /\ syncMillis = tick
    /\ gEdges = 1 /\ lastSyncMillis # tick /\ lastSyncMillis # gBeginTick

====
